---- MODULE Spec2Model ----
(***************************************************************************)
(* Verification model of pyfi's bond valuation core (src/src/bond.cpp):    *)
(* present_value, build_bond_cashflows, price_from_yield and the yield     *)
(* solver internal_rate_return.                                            *)
(*                                                                         *)
(* Two number systems stand for the template type T:                       *)
(*  - exact rationals <<num, den>> (den > 0, lowest terms) for the closed  *)
(*    forms of present_value, where the claims are identities of real      *)
(*    arithmetic;                                                          *)
(*  - a binary fixed-point type with Digits significant bits, rounding     *)
(*    after every operation and saturating at +-FxInf, for the iterative   *)
(*    solver, whose behaviour depends on finite precision (tolerance,      *)
(*    underflow of the bracket, exact zeros of the objective).             *)
(***************************************************************************)
EXTENDS Integers, Sequences, FiniteSets, TLC

VARIABLES fn, args, pc, res, loc

vars == <<fn, args, pc, res, loc>>

(***************************************************************************)
(* Bounds of the explored inputs.                                          *)
(***************************************************************************)
MaxYears == 2
MaxM == 2
MaxLen == 2
\* longest tenor, in periods, priced exactly at a non-zero rate (2^30 fits the checker's integers)
MaxExactPeriods == 30

(***************************************************************************)
(* Exact rational arithmetic.                                              *)
(***************************************************************************)
Abs(x) == IF x < 0 THEN -x ELSE x

Sgn(x) == IF x < 0 THEN -1 ELSE IF x > 0 THEN 1 ELSE 0

RECURSIVE GCD(_, _)
GCD(a, b) == IF b = 0 THEN a ELSE GCD(b, a % b)

Norm(n, d) ==
    LET g == GCD(Abs(n), d)
    IN  <<n \div g, d \div g>>

Rat(n) == <<n, 1>>

RZero == <<0, 1>>

ROne == <<1, 1>>

RNeg(x) == <<-x[1], x[2]>>

RAdd(x, y) ==
    LET g == GCD(x[2], y[2])
        l == (x[2] \div g) * y[2]
    IN  Norm(x[1] * (l \div x[2]) + y[1] * (l \div y[2]), l)

RSub(x, y) == RAdd(x, RNeg(y))

RMul(x, y) ==
    LET g1 == GCD(Abs(x[1]), y[2])
        g2 == GCD(Abs(y[1]), x[2])
    IN  <<(x[1] \div g1) * (y[1] \div g2), (x[2] \div g2) * (y[2] \div g1)>>

RInv(x) == IF x[1] < 0 THEN <<-x[2], -x[1]>> ELSE <<x[2], x[1]>>

RDiv(x, y) == RMul(x, RInv(y))

RECURSIVE RCmp(_, _)
\* the sign of x - y, by comparing integer parts and then the reciprocals of the
\* fractional parts (no cross-multiplication)
RCmp(x, y) ==
    LET qx == x[1] \div x[2]
        qy == y[1] \div y[2]
        rx == x[1] % x[2]
        ry == y[1] % y[2]
    IN  IF qx # qy THEN Sgn(qx - qy)
        ELSE IF rx = 0 THEN (IF ry = 0 THEN 0 ELSE -1)
        ELSE IF ry = 0 THEN 1
        ELSE RCmp(<<y[2], ry>>, <<x[2], rx>>)

RLt(x, y) == RCmp(x, y) < 0

RLe(x, y) == RCmp(x, y) <= 0

RECURSIVE RPowNat(_, _)
RPowNat(x, k) ==
    IF k = 0 THEN ROne
    ELSE LET h == RPowNat(x, k \div 2)
         IN  IF k % 2 = 0 THEN RMul(h, h) ELSE RMul(x, RMul(h, h))

\* std::pow(x, e) for a positive base x and an integral exponent e of either sign
RPow(x, e) == IF e >= 0 THEN RPowNat(x, e) ELSE RInv(RPowNat(x, -e))

(***************************************************************************)
(* Outcomes of a call: a value, or an exception and no value.              *)
(***************************************************************************)
NoValue == <<>>

Ok(v, tr) == [status |-> "ok", value |-> v, trace |-> tr]

Throw(what, tr) == [status |-> what, value |-> NoValue, trace |-> tr]

(***************************************************************************)
(* present_value, bond.cpp:16-54.  trace lists the statements executed, in *)
(* order: the checks, the multiplication years*m, the division by m.       *)
(***************************************************************************)
RECURSIVE DiscountedSum(_, _, _)
\* the loop of bond.cpp:45-47 over the first k elements
DiscountedSum(cf, r, k) ==
    IF k = 0 THEN RZero
    ELSE RAdd(DiscountedSum(cf, r, k - 1), RMul(cf[k], RPow(RAdd(ROne, r), -k)))

\* the level branch without the redemption of par
LevelValue_NoRedemption(c, par, r, n) ==
    LET dfN == RPow(RAdd(ROne, r), -n)
        annuity == IF r = RZero THEN Rat(n) ELSE RDiv(RSub(ROne, dfN), r)
    IN  RMul(c, annuity)

\* the level branch compounding where it should discount
LevelValue_Compounding(c, par, r, n) ==
    LET dfN == RPow(RAdd(ROne, r), n)
        annuity == IF r = RZero THEN Rat(n) ELSE RDiv(RSub(dfN, ROne), r)
    IN  RAdd(RMul(c, annuity), RMul(par, dfN))

LevelValue(c, par, r, n) ==
    LET dfN == RPow(RAdd(ROne, r), -n)
        annuity == IF r = RZero THEN Rat(n) ELSE RDiv(RSub(ROne, dfN), r)
    IN  RAdd(RMul(c, annuity), RMul(par, dfN))

\* the general branch redeeming par also when the schedule has exactly n elements
GeneralValue_RedeemAtN(cf, par, r, n) ==
    LET pv == DiscountedSum(cf, r, Len(cf))
    IN  IF n > 0 /\ Len(cf) <= n
        THEN RAdd(pv, RMul(par, RPow(RAdd(ROne, r), -n)))
        ELSE pv

GeneralValue(cf, par, r, n) ==
    LET pv == DiscountedSum(cf, r, Len(cf))
    IN  IF n > 0 /\ Len(cf) < n
        THEN RAdd(pv, RMul(par, RPow(RAdd(ROne, r), -n)))
        ELSE pv

\* a tenor check that forgets the years
TenorInvalid_MOnly(years, m) == m <= 0

\* bond.cpp:23, the first check
TenorInvalid(years, m) == years < 0 \/ m <= 0

\* bond.cpp:28
PerPeriodRate(y, m) == RDiv(y, Rat(m))

\* bond.cpp:29
RateInvalid(r) == RLe(r, Rat(-1))

present_value(cf, y, par, years, m, same) ==
    IF TenorInvalid(years, m)
    THEN Throw("invalid_argument", <<"check_tenor_m">>)
    ELSE LET n == years * m
             r == PerPeriodRate(y, m)
         IN  IF RateInvalid(r)
             THEN Throw("invalid_argument", <<"check_tenor_m", "divide_by_m", "check_rate">>)
             ELSE IF same
                  THEN IF n <= 0 \/ cf = <<>>
                       THEN Ok(RZero, <<"check_tenor_m", "divide_by_m", "check_rate", "level_empty">>)
                       ELSE Ok(LevelValue(cf[1], par, r, n),
                               <<"check_tenor_m", "divide_by_m", "check_rate", "level">>)
                  ELSE Ok(GeneralValue(cf, par, r, n),
                          <<"check_tenor_m", "divide_by_m", "check_rate", "general">>)

(***************************************************************************)
(* The finite-precision model of T used by the yield solver: fixed point   *)
(* with Digits significant bits for values near 1, round-to-nearest after  *)
(* every multiplication and division, overflow to +-FxInf (infinity) and   *)
(* underflow to 0.                                                         *)
(***************************************************************************)
\* std::numeric_limits<T>::digits of the modelled T
Digits == 11

\* the representation of 1.0; one unit is std::numeric_limits<T>::epsilon()
One == 2 ^ (Digits - 1)

Epsilon == 1

\* tools::min_value<T>(): the smallest positive value
MinValue == 1

\* the overflow threshold: every product of two finite values and One fits
FxInf == (2 ^ 30) \div One

Fx(n) == n * One

FxSat(x) == IF x >= FxInf THEN FxInf ELSE IF x <= -FxInf THEN -FxInf ELSE x

FxIsInf(x) == Abs(x) >= FxInf

FxAdd(x, y) ==
    IF FxIsInf(x) THEN FxSat(x)
    ELSE IF FxIsInf(y) THEN FxSat(y)
    ELSE FxSat(x + y)

FxSub(x, y) == FxAdd(x, -y)

\* round-to-nearest quotient of integers, d > 0
RoundDiv(n, d) == (n + d \div 2) \div d

FxMul(x, y) ==
    IF x = 0 \/ y = 0 THEN 0
    ELSE IF FxIsInf(x) \/ FxIsInf(y) \/ Abs(x) > (FxInf * One) \div Abs(y)
         THEN Sgn(x) * Sgn(y) * FxInf
         ELSE FxSat(RoundDiv(x * y, One))

FxDiv(x, y) ==
    IF y = 0 THEN Sgn(x) * FxInf
    ELSE IF FxIsInf(y) THEN 0
    ELSE IF FxIsInf(x) THEN Sgn(x) * Sgn(y) * FxInf
    ELSE FxSat(Sgn(y) * RoundDiv(x * One, Abs(y)))

\* division by static_cast<T>(m), m > 0
FxDivInt(x, m) == IF FxIsInf(x) THEN FxSat(x) ELSE RoundDiv(x, m)

RECURSIVE FxPowNat(_, _)
\* std::pow(x, m) for an integral m >= 0
FxPowNat(x, k) == IF k = 0 THEN One ELSE FxMul(x, FxPowNat(x, k - 1))

\* x * 2^e and x / 2^e, the bracket's moves by a power-of-two factor
FxScaleUp(x, e) ==
    IF x = 0 THEN 0
    ELSE IF e >= 2 * Digits \/ FxIsInf(x) THEN Sgn(x) * FxInf
    ELSE IF Abs(x) > FxInf \div (2 ^ e) THEN Sgn(x) * FxInf
    ELSE x * (2 ^ e)

FxScaleDown(x, e) ==
    IF e >= 2 * Digits THEN 0
    ELSE Sgn(x) * (Abs(x) \div (2 ^ e))

(***************************************************************************)
(* build_bond_cashflows and price_from_yield, bond.cpp:56-68 and 130-140.  *)
(***************************************************************************)
\* a schedule that forgets the redemption in the last period
build_bond_cashflows_CouponsOnly(par, coupon_rate, years, m) ==
    IF m <= 0 \/ years <= 0 THEN <<>>
    ELSE [i \in 1 .. years * m |-> FxMul(par, FxDivInt(coupon_rate, m))]

build_bond_cashflows(par, coupon_rate, years, m) ==
    IF m <= 0 \/ years <= 0 THEN <<>>
    ELSE LET n == years * m
             c == FxMul(par, FxDivInt(coupon_rate, m))
         IN  [i \in 1 .. n |-> IF i < n THEN c ELSE FxAdd(c, par)]

RECURSIVE PfyLoop(_, _, _)
\* <<disc, pv>> after the first k iterations of bond.cpp:135-138
PfyLoop(cf, r, k) ==
    IF k = 0 THEN <<One, 0>>
    ELSE LET prev == PfyLoop(cf, r, k - 1)
             disc == FxMul(prev[1], FxAdd(One, r))
         IN  <<disc, FxAdd(prev[2], FxDiv(cf[k], disc))>>

price_from_yield(cf, yield, m) == PfyLoop(cf, FxDivInt(yield, m), Len(cf))[2]

(***************************************************************************)
(* internal_rate_return, bond.cpp:70-128.                                  *)
(***************************************************************************)
\* bond.cpp:83
\* a frequency that falls back to 2
EffectiveM_Two(compounding_annually) == IF compounding_annually > 0 THEN compounding_annually ELSE 2

EffectiveM(compounding_annually) == IF compounding_annually > 0 THEN compounding_annually ELSE 1

\* the given schedule used as it is, empty or not
SolverCashflows_AsGiven(cash_flows, par, rate, years, m) == cash_flows

\* bond.cpp:85
SolverCashflows(cash_flows, par, rate, years, m) ==
    IF cash_flows = <<>> THEN build_bond_cashflows(par, rate, years, m) ELSE cash_flows

\* a price check that lets 0 through
PriceInvalid_NegativeOnly(price) == price < 0

\* bond.cpp:91, !(price > 0)
PriceInvalid(price) == ~(price > 0)

RECURSIVE ObjectiveLoop(_, _, _)
\* <<df, v>> after the first k iterations of bond.cpp:101-104
ObjectiveLoop(cf, inv, k) ==
    IF k = 0 THEN <<One, 0>>
    ELSE LET prev == ObjectiveLoop(cf, inv, k - 1)
             df == FxMul(prev[1], inv)
         IN  <<df, FxAdd(prev[2], FxMul(cf[k], df))>>

\* the lambda f of bond.cpp:95-106
Objective(cf, price, rp) ==
    IF rp <= -One THEN FxInf
    ELSE FxSub(ObjectiveLoop(cf, FxDiv(One, FxAdd(One, rp)), Len(cf))[2], price)

\* no clamp at all
Clamp_None(x, lo, hi) == x

\* std::clamp
Clamp(x, lo, hi) == IF x < lo THEN lo ELSE IF x > hi THEN hi ELSE x

\* a quiet NaN: a value of its own beyond both infinities, which no
\* arithmetic of the solver is applied to
FxNaN == 2 * FxInf

\* std::isfinite
FxIsFinite(x) == Abs(x) < FxInf

\* bond.cpp:109-118
InitialGuess(rate, m) ==
    LET g0 == IF rate = FxNaN THEN FxNaN ELSE FxDivInt(rate, m)
        g1 == IF ~FxIsFinite(g0) THEN FxDivInt(RoundDiv(5 * One, 100), m) ELSE g0
        g2 == IF g1 <= -((9 * One) \div 10) THEN -(One \div 2) ELSE g1
    IN  Clamp(g2, -One + 10 * Epsilon, Fx(10))

\* bond.cpp:120
MaxIter == 128

\* eps_tolerance<T>(digits - 6), bond.cpp:121: |a - b| <= 2^(1-bits) * min(|a|, |b|)
TolBits == Digits - 6

Tol(a, b) ==
    LET lesser == IF Abs(a) < Abs(b) THEN Abs(a) ELSE Abs(b)
    IN  Abs(a - b) * (2 ^ (TolBits - 1)) <= lesser

\* bond.cpp:127
Annualize(rp, m) == FxSub(FxPowNat(FxAdd(One, rp), m), One)

(***************************************************************************)
(* The root search of bond.cpp:123-126.  bracket_and_solve_root and        *)
(* toms748_solve are Boost.Math's: the bracketing loop is modelled         *)
(* statement by statement; toms748_solve by its contract (preconditions    *)
(* a < b and a sign change, else a domain error; every iteration charges   *)
(* the budget and replaces the bracket by a narrower one that keeps the    *)
(* sign change; it stops at tol(a, b), at an exact zero, or when the       *)
(* budget is spent), with bisection as the narrowing step.  Adjacent       *)
(* representable values always satisfy eps_tolerance in floating point; in *)
(* the fixed-point type that is a width of one unit.                       *)
(***************************************************************************)
Converged(a, b) == Tol(a, b) \/ Abs(a - b) <= Epsilon

\* an evaluation that is not charged
Charge_Free(count) == count

\* one evaluation of the objective charged to the iteration budget
Charge(count) == count - 1

\* the checks at the entry of toms748_solve(f, ax, bx, fax, fbx, tol, max_iter)
TomsEntry(ax, bx, fax, fbx, max_iter) ==
    IF max_iter = 0 THEN [kind |-> "return", a |-> ax, b |-> bx]
    ELSE IF ax >= bx THEN [kind |-> "domain_error", a |-> ax, b |-> bx]
    ELSE IF Converged(ax, bx) \/ fax = 0 \/ fbx = 0
         THEN [kind |-> "return",
               a |-> IF fax = 0 THEN ax ELSE IF fbx = 0 THEN bx ELSE ax,
               b |-> IF fax = 0 THEN ax ELSE bx]
    ELSE IF Sgn(fax) * Sgn(fbx) > 0 THEN [kind |-> "domain_error", a |-> ax, b |-> bx]
    ELSE [kind |-> "loop", a |-> ax, b |-> bx]

Running(tr) == [status |-> "running", value |-> NoValue, trace |-> tr]

EntryTrace == <<"effective_m", "select_cashflows", "check_cashflows", "check_price">>

\* bond.cpp:126-127
Finish(l, first, second) ==
    LET rp == FxDivInt(FxAdd(first, second), 2)
    IN  [pc |-> "done",
         loc |-> [l EXCEPT !.a = first, !.b = second, !.rp = rp],
         res |-> Ok(Annualize(rp, l.m), Append(l.trace, "annualize"))]

Raise(l, what) ==
    [pc |-> "done", loc |-> l, res |-> Throw(what, Append(l.trace, what))]

\* bond.cpp:125, the second toms748_solve on the returned bracket, with the
\* iteration count `it` the first call left
SecondSolve(l, first, second, it) ==
    IF it <= 2 THEN Finish([l EXCEPT !.it = it], first, second)
    ELSE LET f1 == Objective(l.cf, l.price, first)
             f2 == Objective(l.cf, l.price, second)
             e == TomsEntry(first, second, f1, f2, it - 2)
             l2 == [l EXCEPT !.a = e.a, !.b = e.b, !.fa = f1, !.fb = f2, !.it = it,
                             !.budget = it - 2, !.count = it - 2, !.evals = @ + 2,
                             !.running = (e.kind = "loop"),
                             !.trace = Append(@, "toms748_solve")]
         IN  IF e.kind = "domain_error" THEN Raise(l2, "domain_error")
             ELSE [pc |-> "toms2", loc |-> l2, res |-> Running(l2.trace)]

\* the call of toms748_solve inside bracket_and_solve_root, once the signs differ
FirstSolve(l) ==
    LET lo == IF l.a < 0 THEN l.b ELSE l.a
        hi == IF l.a < 0 THEN l.a ELSE l.b
        flo == IF l.a < 0 THEN l.fb ELSE l.fa
        fhi == IF l.a < 0 THEN l.fa ELSE l.fb
        e == TomsEntry(lo, hi, flo, fhi, l.count)
        l2 == [l EXCEPT !.a = e.a, !.b = e.b, !.fa = flo, !.fb = fhi,
                        !.it = MaxIter - l.count + 1, !.budget = l.count,
                        !.running = (e.kind = "loop")]
    IN  IF e.kind = "domain_error" THEN Raise(l2, "domain_error")
        ELSE [pc |-> "toms1", loc |-> l2, res |-> Running(l2.trace)]

\* the state of bracket_and_solve_root(f, guess, 2, rising = false, tol, it) at its loop
BracketEntry(cf, price, m, guess) ==
    LET f0 == Objective(cf, price, guess)
    IN  [cf |-> cf, price |-> price, m |-> m, guess |-> guess,
         a |-> guess, b |-> guess, fa |-> f0, fb |-> f0,
         count |-> MaxIter - 1, it |-> MaxIter, budget |-> MaxIter - 1,
         fexp |-> 1, step |-> 32,
         dir |-> IF (f0 < 0) = (guess < 0) THEN "up" ELSE "down",
         running |-> FALSE, rp |-> 0,
         iters |-> 0, refines1 |-> 0, refines2 |-> 0, evals |-> 1,
         trace |-> Append(EntryTrace, "bracket_and_solve_root")]

NoLoc == [none |-> TRUE]

internal_rate_return(cash_flows, price, rate, par, years, compounding_annually) ==
    LET m == EffectiveM(compounding_annually)
        cf == SolverCashflows(cash_flows, par, rate, years, m)
    IN  IF cf = <<>>
        THEN [pc |-> "done", loc |-> NoLoc,
              res |-> Throw("invalid_argument", SubSeq(EntryTrace, 1, 3))]
        ELSE IF PriceInvalid(price)
             THEN [pc |-> "done", loc |-> NoLoc, res |-> Throw("invalid_argument", EntryTrace)]
             ELSE LET l == BracketEntry(cf, price, m, InitialGuess(rate, m))
                  IN  [pc |-> "bracket", loc |-> l, res |-> Running(l.trace)]

(***************************************************************************)
(* Inputs.                                                                 *)
(***************************************************************************)
Amounts == {Rat(-5), Rat(0), Rat(5), Rat(10)}

Pars == {Rat(0), Rat(10)}

\* annual yields; with m they give per-period rates on both sides of -1 and 0
Yields == {Rat(-2), Rat(-1), Rat(0), Rat(1), Rat(2)}

YearsDom == -1 .. MaxYears

MDom == -1 .. MaxM

RECURSIVE SeqsUpTo(_, _)
SeqsUpTo(S, k) ==
    IF k = 0 THEN {<<>>}
    ELSE LET shorter == SeqsUpTo(S, k - 1)
         IN  shorter \cup {Append(s, x) : s \in {t \in shorter : Len(t) = k - 1}, x \in S}

Schedules == SeqsUpTo(Amounts, MaxLen)

\* inputs of internal_rate_return: prices on both sides of 0 and of par, coupon
\* rates on both sides of 0, a synthesized, a built and an unrelated schedule
IrrPars == {Fx(100)}

IrrPrices == {Fx(-1), 0, Fx(60), Fx(100), Fx(120), Fx(250)}

IrrRates == {-One, -(One \div 4), 0, One \div 8, One \div 2}

IrrGiven == {"empty", "built", "other"}

\* coupon rates that are far out or not finite, for calls that are given their schedule
IrrWildRates == {-FxInf, Fx(-100), -((19 * One) \div 20), Fx(100), FxInf, FxNaN}

\* the yields a bond is priced at before its price is handed to the solver
IrrTrueYields == {One \div 16, One \div 8, One \div 4, One \div 2, One}

\* marks a call whose price was not computed from a yield
NoYield == -FxInf

\* the grid of test_bond.cpp:17-18
\* the face values build_bond_cashflows is called with
BuildPars == {Fx(-100), 0, Fx(1), Fx(100)}

ParMs == {1, 2, 4, 12}

ParYears == {1, 5, 30}

(***************************************************************************)
(* zero_coupon_price and coupon_bond_price, bond.cpp:178-195, on exact     *)
(* rationals extended with NaN.                                            *)
(***************************************************************************)
\* a quiet NaN of T: every comparison with it is false
NaN == <<0, 0>>

IsNaN(x) == x[2] = 0

\* operator> and operator>= of T
Greater(x, y) == ~IsNaN(x) /\ ~IsNaN(y) /\ RLt(y, x)

GreaterEq(x, y) == ~IsNaN(x) /\ ~IsNaN(y) /\ RLe(y, x)

\* static_cast<int> of a finite T: truncation toward zero
TruncToInt(x) == Sgn(x[1]) * (Abs(x[1]) \div x[2])

\* zero_coupon_price_cexpr(par, y, years, m), an integral number of years:
\* par / (1 + y/m)^(years*m)
zero_coupon_price_cexpr(par, y, years, m) ==
    RDiv(par, RPow(RAdd(ROne, RDiv(y, Rat(m))), years * m))

\* bond.cpp:179-181: the checks in order; the trace of the failing one, or <<>>
ZeroCouponInvalid(par, T, m) ==
    IF ~Greater(par, RZero) THEN <<"check_par">>
    ELSE IF ~GreaterEq(T, RZero) THEN <<"check_par", "check_years">>
    ELSE IF ~(m > 0) THEN <<"check_par", "check_years", "check_m">>
    ELSE <<>>

\* bond.cpp:178-185
zero_coupon_price(par, y, T, m) ==
    LET bad == ZeroCouponInvalid(par, T, m)
    IN  IF bad # <<>> THEN Throw("invalid_argument", bad)
        ELSE Ok(zero_coupon_price_cexpr(par, y, TruncToInt(T), m),
                <<"check_par", "check_years", "check_m", "truncate_years", "zero_coupon_price_cexpr">>)

RECURSIVE CouponSum(_, _, _)
\* C/b + C/b^2 + ... + C/b^k
CouponSum(C, b, k) == IF k <= 0 THEN RZero ELSE RAdd(CouponSum(C, b, k - 1), RDiv(C, RPow(b, k)))

\* coupon_bond_price_cexpr(par, c, y, years, m), an integral number of years:
\* years*m coupons of par*(c/m) and the face value, discounted at y/m
coupon_bond_price_cexpr(par, c, y, years, m) ==
    LET n == years * m
        b == RAdd(ROne, RDiv(y, Rat(m)))
    IN  RAdd(CouponSum(RMul(par, RDiv(c, Rat(m))), b, n), RDiv(par, RPow(b, n)))

\* a coupon-bond check that accepts negative coupon rates
CouponBondInvalid_AnyCoupon(par, c, T, m) ==
    IF ~Greater(par, RZero) THEN <<"check_par">>
    ELSE IF ~GreaterEq(T, RZero) THEN <<"check_par", "check_coupon", "check_years">>
    ELSE IF ~(m > 0) THEN <<"check_par", "check_coupon", "check_years", "check_m">>
    ELSE <<>>

\* bond.cpp:188-191: the checks in order; the trace of the failing one, or <<>>
CouponBondInvalid(par, c, T, m) ==
    IF ~Greater(par, RZero) THEN <<"check_par">>
    ELSE IF ~GreaterEq(c, RZero) THEN <<"check_par", "check_coupon">>
    ELSE IF ~GreaterEq(T, RZero) THEN <<"check_par", "check_coupon", "check_years">>
    ELSE IF ~(m > 0) THEN <<"check_par", "check_coupon", "check_years", "check_m">>
    ELSE <<>>

\* bond.cpp:187-195
coupon_bond_price(par, c, y, T, m) ==
    LET bad == CouponBondInvalid(par, c, T, m)
    IN  IF bad # <<>> THEN Throw("invalid_argument", bad)
        ELSE Ok(coupon_bond_price_cexpr(par, c, y, TruncToInt(T), m),
                <<"check_par", "check_coupon", "check_years", "check_m", "truncate_years",
                  "coupon_bond_price_cexpr">>)

(***************************************************************************)
(* accrued_interest, dirty_coupon_price, clean_coupon_price and the from_T *)
(* wrappers, declared in bond.h:142-243.  A price is q + k * b^e, written  *)
(* <<q, k, b, e>> with b = 1 + y/m the base of the call and 0 < e < 1 the  *)
(* fractional part of the exponent (k = 0, b = 1, e = 0 for a rational):   *)
(* prices of one call share b, so that they are equal exactly when their   *)
(* parts are.                                                              *)
(***************************************************************************)
Surd(q) == <<q, RZero, ROne, RZero>>

SurdScale(x, q) ==
    LET k == RMul(x[2], q)
    IN  IF k = RZero THEN Surd(RMul(x[1], q)) ELSE <<RMul(x[1], q), k, x[3], x[4]>>

SurdSubRat(x, q) == <<RSub(x[1], q), x[2], x[3], x[4]>>

Floor(x) == x[1] \div x[2]

Ceil(x) == -((-x[1]) \div x[2])

\* std::pow(b, e) for b > 0, b # 1 and a rational exponent e
PowFrac(b, e) ==
    IF e[2] = 1 THEN Surd(RPow(b, e[1]))
    ELSE <<RZero, RPow(b, Floor(e)), b, RSub(e, Rat(Floor(e)))>>

\* the accrued fraction is in [0, 1)
AlphaValid(alpha) == GreaterEq(alpha, RZero) /\ Greater(ROne, alpha)

\* accrued_interest, bond.h:142-158: par * (c/m) * alpha
accrued_interest(par, c, m, alpha) ==
    IF ~(m > 0) THEN Throw("invalid_argument", <<"check_m">>)
    ELSE IF ~AlphaValid(alpha) THEN Throw("invalid_argument", <<"check_m", "check_alpha">>)
    ELSE Ok(RMul(RMul(par, RDiv(c, Rat(m))), alpha), <<"check_m", "check_alpha", "accrue">>)

\* the argument checks of the explicit-period prices
AccrualInvalid(par, c, n, m, alpha) ==
    \/ ~Greater(par, RZero)
    \/ ~GreaterEq(c, RZero)
    \/ n < 0
    \/ ~(m > 0)
    \/ ~AlphaValid(alpha)

\* dirty_coupon_price, bond.h:160-181:
\* sum of C/(1+r)^(k-alpha) for k = 1..n, plus par/(1+r)^(n-alpha); C*n + par at r = 0
dirty_coupon_price(par, c, y, n, m, alpha) ==
    IF AccrualInvalid(par, c, n, m, alpha) THEN Throw("invalid_argument", <<"check">>)
    ELSE LET C == RMul(par, RDiv(c, Rat(m)))
             b == RAdd(ROne, RDiv(y, Rat(m)))
         IN  IF b = ROne THEN Ok(Surd(RAdd(RMul(C, Rat(n)), par)), <<"check", "zero_rate">>)
             ELSE Ok(SurdScale(PowFrac(b, alpha), RAdd(CouponSum(C, b, n), RDiv(par, RPow(b, n)))),
                     <<"check", "geometric_sum">>)

\* a clean price that subtracts the whole coupon whatever the accrued fraction
clean_coupon_price_FullCoupon(par, c, y, n, m, alpha) ==
    LET dirty == dirty_coupon_price(par, c, y, n, m, alpha)
    IN  IF dirty.status # "ok" THEN dirty
        ELSE Ok(SurdSubRat(dirty.value, RMul(par, RDiv(c, Rat(m)))), dirty.trace)

\* a clean price that subtracts nothing
clean_coupon_price_Dirty(par, c, y, n, m, alpha) == dirty_coupon_price(par, c, y, n, m, alpha)

\* clean_coupon_price, bond.h:183-202: dirty - accrued
clean_coupon_price(par, c, y, n, m, alpha) ==
    LET dirty == dirty_coupon_price(par, c, y, n, m, alpha)
    IN  IF dirty.status # "ok" THEN dirty
        ELSE Ok(SurdSubRat(dirty.value, accrued_interest(par, c, m, alpha).value),
                dirty.trace \o <<"accrued_interest", "subtract">>)

\* bond.h:207-210: N = T*m, n = ceil(N)
DerivedPeriods(T, m) == Ceil(RMul(T, Rat(m)))

\* an accrued fraction that is the fractional part of N itself
DerivedAlpha_Frac(T, m) ==
    LET N == RMul(T, Rat(m))
    IN  RSub(N, Rat(Floor(N)))

\* bond.h:207-210: alpha = 0 when N is integral, 1 - (N - floor(N)) otherwise
DerivedAlpha(T, m) ==
    LET N == RMul(T, Rat(m))
        frac == RSub(N, Rat(Floor(N)))
    IN  IF frac = RZero THEN RZero ELSE RSub(ROne, frac)

\* dirty_coupon_price_from_T, bond.h:204-223
dirty_coupon_price_from_T(par, c, y, T, m) ==
    dirty_coupon_price(par, c, y, DerivedPeriods(T, m), m, DerivedAlpha(T, m))

\* clean_coupon_price_from_T, bond.h:225-243
clean_coupon_price_from_T(par, c, y, T, m) ==
    clean_coupon_price(par, c, y, DerivedPeriods(T, m), m, DerivedAlpha(T, m))

(***************************************************************************)
(* black_scholes_call and black_scholes_put, option.cpp:29-62.             *)
(***************************************************************************)
\* 1 / 1e-9, the threshold of option.cpp:34 and 50
EpsInverse == 1000000000

BsEpsilon == <<1, EpsInverse>>

\* operator< of double: false on NaN
Less(x, y) == ~IsNaN(x) /\ ~IsNaN(y) /\ RLt(x, y)

\* a check that rejects only exact zeros
BsInvalid_ZeroOnly(volatility, time) == volatility = RZero \/ time = RZero

\* option.cpp:34 and 50
BsInvalid(volatility, time) == Less(volatility, BsEpsilon) \/ Less(time, BsEpsilon)

\* the closed form: d1 divides by volatility * sqrt(time); Phi, exp and log are
\* left uninterpreted, a price is the term of its arguments, NaN propagates
BsPrice(kind, S, K, volatility, r, time) ==
    IF IsNaN(volatility) \/ IsNaN(time) THEN NaN
    ELSE <<kind, S, K, volatility, r, time>>

\* option.cpp:29-43 (kind "call") and 45-62 (kind "put")
black_scholes(kind, S, K, volatility, r, time) ==
    IF BsInvalid(volatility, time) THEN Throw("invalid_argument", <<"check_volatility_time">>)
    ELSE Ok(BsPrice(kind, S, K, volatility, r, time),
            <<"check_volatility_time", "divide_by_volatility_sqrt_time", "Phi">>)

(***************************************************************************)
(* The binomial lattice, option.cpp:126-224, on exact rationals.  The up   *)
(* factor u = exp(volatility*sqrt(dt)) and the growth factor               *)
(* g = exp(risk_free_rate*dt) of one step are the inputs that stand for    *)
(* volatility, rate and time; d = 1/u.  options[j] is element j + 1 of the *)
(* sequence.                                                               *)
(***************************************************************************)
RMax(x, y) == IF RLt(x, y) THEN y ELSE x

\* option.cpp:126-131 and 133-138, on one element
PayoffOf(payoff, spot, strike) ==
    IF payoff = "call_payoff" THEN RMax(RSub(spot, strike), RZero)
    ELSE RMax(RSub(strike, spot), RZero)

\* call_payoff / put_payoff applied to the vector
ApplyPayoff(payoff, v, strike) == [i \in 1 .. Len(v) |-> PayoffOf(payoff, v[i], strike)]

\* S(i, j) = S0 * u^j * d^(i-j)
NodePrice(S, u, i, j) == RMul(S, RMul(RPow(u, j), RPow(RInv(u), i - j)))

\* option.cpp:140-163, for steps >= 0: the terminal layer and its payoff
binomial_tree_setup(S, K, u, steps, payoff) ==
    ApplyPayoff(payoff, [k \in 1 .. steps + 1 |-> NodePrice(S, u, steps, k - 1)], K)

\* option.cpp:175 and 206
FairProb(u, g) == RDiv(RSub(g, RInv(u)), RSub(u, RInv(u)))

\* discr * (fair_prob * options[j + 1] + (1 - fair_prob) * options[j])
Continuation(v, j, u, g) ==
    LET p == FairProb(u, g)
    IN  RMul(RInv(g), RAdd(RMul(p, v[j + 2]), RMul(RSub(ROne, p), v[j + 1])))

RECURSIVE EuInduction(_, _, _, _)
\* option.cpp:180-184: the passes i, i - 1, ..., 1 of the outer loop
EuInduction(v, i, u, g) ==
    IF i <= 0 THEN v
    ELSE EuInduction([k \in 1 .. Len(v) |-> IF k <= i THEN Continuation(v, k - 1, u, g) ELSE v[k]],
                     i - 1, u, g)

RECURSIVE UsInduction(_, _, _, _, _, _, _)
\* option.cpp:211-221: the passes i, i - 1, ..., 0 of the outer loop
UsInduction(v, i, S, K, u, g, payoff) ==
    IF i < 0 THEN v
    ELSE UsInduction([k \in 1 .. Len(v) |->
                         IF k <= i + 1
                         THEN RMax(Continuation(v, k - 1, u, g),
                                   PayoffOf(payoff, NodePrice(S, u, i, k - 1), K))
                         ELSE v[k]],
                     i - 1, S, K, u, g, payoff)

\* the first pass of the outer loop: option.cpp:180 (i = steps) and 211 (i = steps - 1)
FirstPass_SkipTerminal(style, steps) == steps - 1

FirstPass(style, steps) == IF style = "eu" THEN steps ELSE steps - 1

\* an outer loop that stops before the root
PassRuns_NoRoot(style, i) == i > 0

\* the condition of the outer loop: option.cpp:180 (i > 0) and 211 (i >= 0)
PassRuns(style, i) == IF style = "eu" THEN i > 0 ELSE i >= 0

\* an inner loop that runs one element further in the European engine
InnerBound_Inclusive(style, i) == i + 1

\* the exclusive bound of j in pass i: option.cpp:181 (j < i) and 212 (j <= i)
InnerBound(style, i) == IF style = "eu" THEN i ELSE i + 1

\* an engine that never exercises early
UsNodeValue_Hold(cont, early_exercise) == cont

\* option.cpp:219
UsNodeValue(cont, early_exercise) == RMax(cont, early_exercise)

\* the value assigned to options[j] in pass i: option.cpp:182, and 213-219
NodeValue(style, v, i, j, S, K, u, g, payoff) ==
    IF style = "eu" THEN Continuation(v, j, u, g)
    ELSE UsNodeValue(Continuation(v, j, u, g), PayoffOf(payoff, NodePrice(S, u, i, j), K))

\* an assignment that lands one element too high
Store_Above(v, j, x) == [v EXCEPT ![j + 2] = x]

\* options[j] = x
Store(v, j, x) == [v EXCEPT ![j + 1] = x]

\* which of the two engines the running call is
LatticeStyle == IF fn = "binomial_eu_option" THEN "eu" ELSE "us"

\* the locals of a lattice call after binomial_tree_setup: the vector, the loop
\* indices, the number of assignments made by the induction, the indices it has
\* used, and the vector as it was when the current pass began; of the setup, the
\* size given to the vector (option.cpp:152), the indices its loop wrote
\* (154-158) and the number of calls of the payoff (160)
LatticeFrame(style, S, K, u, steps, payoff) ==
    LET options == binomial_tree_setup(S, K, u, steps, payoff)
    IN  [options |-> options, i |-> FirstPass(style, steps), j |-> 0, updates |-> 0,
         touched |-> {}, layer |-> options,
         allocated |-> steps + 1, filled |-> 0 .. steps, payoff_calls |-> 1]

\* the steps taken by a call that builds its lattice
LatticeTrace == <<"binomial_tree_setup", "allocate", "write", "payoff", "induction", "read">>

\* binomial_eu_option (style "eu"), option.cpp:165-187, and binomial_us_option
\* (style "us"), option.cpp:195-224.  steps is not checked: steps = 0 builds a
\* lattice of one node whatever dt is (its factors have exponent 0);
\* steps = -1 allocates no element and reads options[0] out of bounds, with
\* outcome oob; steps <= -2 asks std::vector for a negative size
binomial_option(style, S, K, u, g, steps, payoff, oob) ==
    IF steps <= -2 THEN Throw("length_error", <<"binomial_tree_setup", "allocate">>)
    ELSE IF steps = -1
         THEN IF oob = "crash"
              THEN Throw("crash", <<"binomial_tree_setup", "allocate", "payoff", "induction", "read">>)
              ELSE Ok(<<"indeterminate">>,
                      <<"binomial_tree_setup", "allocate", "payoff", "induction", "read">>)
    ELSE LET leaves == binomial_tree_setup(S, K, u, steps, payoff)
             v == IF style = "eu" THEN EuInduction(leaves, steps, u, g)
                  ELSE UsInduction(leaves, steps - 1, S, K, u, g, payoff)
         IN  Ok(v[1], LatticeTrace)

(***************************************************************************)
(* The binding wrappers of option_bind.cpp:411-429 and 474-492.            *)
(***************************************************************************)
NoPayoff == "none"

\* a selector that falls back to the call payoff
SelectPayoff_DefaultCall(payoff_type) ==
    IF payoff_type = "put" THEN "put_payoff" ELSE "call_payoff"

\* option_bind.cpp:419-426
SelectPayoff(payoff_type) ==
    IF payoff_type = "call" THEN "call_payoff"
    ELSE IF payoff_type = "put" THEN "put_payoff"
    ELSE NoPayoff

\* the lambda bound as binomial_eu_option (style "eu") or binomial_us_option ("us")
binomial_option_binding(style, S, K, u, g, steps, payoff_type, oob) ==
    LET payoff == SelectPayoff(payoff_type)
    IN  IF payoff = NoPayoff THEN Throw("invalid_argument", <<"select_payoff">>)
        ELSE LET r == binomial_option(style, S, K, u, g, steps, payoff, oob)
             IN  [r EXCEPT !.trace = <<"select_payoff", "call_engine">> \o @]

(***************************************************************************)
(* The deltas of option_greeks.cpp:10-48.  log, exp and sqrt are left      *)
(* uninterpreted: d1 is kept as the pair of S/K and the drift term that    *)
(* are divided by volatility*sqrt(time), and a delta as                    *)
(* exp(scale_exp)*(factor + shift), the factor naming the function applied *)
(* to d1.                                                                  *)
(***************************************************************************)
\* option.cpp:17-27: (log(S/K) + (r + volatility^2/2)*time) / (volatility*sqrt(time))
black_scholes_x(S, K, volatility, r, time) ==
    [log_of |-> RDiv(S, K),
     drift |-> RMul(RAdd(r, RDiv(RMul(volatility, volatility), Rat(2))), time),
     over |-> <<volatility, time>>]

\* option_greeks.cpp:15: 1.0 / std::pow(M_PI * 2, 1 / 2), the exponent being
\* the integer quotient 1 / 2 = 0
one_pi == IF 1 \div 2 = 0 THEN ROne ELSE <<"inverse_sqrt_two_pi">>

\* option_greeks.cpp:10-20: one_pi * exp(pow(-x, 2) / 2)
custom_normal(S, K, volatility, r, time) ==
    [fun |-> "exp_half_square", coef |-> one_pi, arg |-> black_scholes_x(S, K, volatility, r, time)]

\* option_greeks.cpp:28-37
bs_call_delta(S, K, volatility, r, q, time) ==
    Ok([scale_exp |-> RNeg(RMul(time, q)),
        factor |-> custom_normal(S, K, volatility, r, time),
        shift |-> RZero],
       <<"custom_normal", "exp">>)

\* option_greeks.cpp:39-48
bs_put_delta(S, K, volatility, r, q, time) ==
    Ok([scale_exp |-> RMul(RNeg(q), time),
        factor |-> custom_normal(S, K, volatility, r, time),
        shift |-> Rat(-1)],
       <<"custom_normal", "exp">>)

\* the arguments of the delta calls: the first two cases of test_greeks.cpp:78-80
\* and their neighbours
GreekStrikes == {Rat(100), Rat(110)}

GreekVols == {<<1, 5>>, <<1, 4>>}

GreekRates == {<<-1, 50>>, <<3, 100>>, <<1, 20>>}

GreekYields == {Rat(0), <<1, 50>>}

GreekTimes == {<<1, 2>>, Rat(1)}

\* face values, yields and maturities (in half years) of the price functions
PricePars == {NaN, Rat(-10), Rat(0), Rat(10)}

PriceYields == {<<-1, 2>>, Rat(0), <<1, 2>>, Rat(1)}

PriceCoupons == {NaN, <<-1, 2>>, Rat(0), <<1, 2>>}

\* maturities in quarters of a year
QuarterMaturities == {Norm(k, 4) : k \in 0 .. 4 * MaxYears}

\* volatilities and times: negative, zero, below, at and above the threshold, NaN
BsSmall == {NaN, Rat(-1), Rat(0), <<1, 2 * EpsInverse>>, BsEpsilon, <<1, 4>>, Rat(1)}

BsSpots == {Rat(100)}

BsStrikes == {Rat(90), Rat(110)}

BsRates == {Rat(0), <<1, 20>>}

\* the greatest number of steps of a lattice
MaxSteps == 3

StepsDom == -2 .. MaxSteps

\* what a read past the end of the vector can do
OutOfBounds == {"crash", "garbage"}

UpFactors == {Rat(2), <<3, 2>>}

GrowthFactors == {<<3, 4>>, Rat(1), <<5, 4>>, Rat(2)}

PayoffFuncs == {"call_payoff", "put_payoff"}

\* payoff selector strings
PayoffTypes == {"call", "put", "Call", "PUT", "straddle", ""}

\* accrued fractions, and the periods remaining
Alphas == {NaN, <<-1, 2>>, Rat(0), <<1, 4>>, <<1, 2>>, Rat(1)}

PeriodsDom == -1 .. MaxLen

AccrualPars == {Rat(0), Rat(10)}

AccrualCoupons == {<<-1, 2>>, Rat(0), <<1, 2>>}

Maturities == {NaN} \cup {Norm(k, 2) : k \in -1 .. 2 * MaxYears}

(***************************************************************************)
(* The state machine: one call at a time, each call owning its state.      *)
(***************************************************************************)
NoArgs == [none |-> TRUE]

Init ==
    /\ fn = "none"
    /\ args = NoArgs
    /\ pc = "idle"
    /\ res = Throw("none", <<>>)
    /\ loc = NoLoc

CallPresentValue ==
    /\ pc = "idle"
    /\ \E cf \in Schedules, y \in Yields, par \in Pars, years \in YearsDom, m \in MDom, same \in BOOLEAN :
          /\ fn' = "present_value"
          /\ args' = [cash_flows |-> cf, annual_yield |-> y, par_value |-> par, years |-> years,
                      compounding_annually |-> m, same_cashflows |-> same]
          /\ res' = present_value(cf, y, par, years, m, same)
    /\ pc' = "done"
    /\ loc' = NoLoc

\* the call returns (or its exception propagates); nothing of it is kept
Return ==
    /\ pc = "done"
    /\ fn' = "none"
    /\ args' = NoArgs
    /\ pc' = "idle"
    /\ res' = Throw("none", <<>>)
    /\ loc' = NoLoc

\* the call of test_bond.cpp:15-25: a level coupon of par*(y/m), on the test's grid
\* of frequencies and tenors, at the per-period rates 0 and 1
CallPresentValueAtPar ==
    /\ pc = "idle"
    /\ \E m \in ParMs, years \in ParYears, rho \in {0, 1} :
          /\ rho # 0 => years * m <= MaxExactPeriods
          /\ LET y == Rat(rho * m)
                 par == Rat(1)
                 c == RMul(par, RDiv(y, Rat(m)))
             IN  /\ args' = [cash_flows |-> <<c>>, annual_yield |-> y, par_value |-> par,
                             years |-> years, compounding_annually |-> m, same_cashflows |-> TRUE]
                 /\ res' = present_value(<<c>>, y, par, years, m, TRUE)
    /\ fn' = "present_value"
    /\ pc' = "done"
    /\ loc' = NoLoc

Goto(n) ==
    /\ pc' = n.pc
    /\ loc' = n.loc
    /\ res' = n.res
    /\ UNCHANGED <<fn, args>>

\* a call of internal_rate_return, up to the first evaluation of the objective
CallInternalRateReturn ==
    /\ pc = "idle"
    /\ \E price \in IrrPrices, rate \in IrrRates, par \in IrrPars, years \in YearsDom, m \in MDom,
          given \in IrrGiven :
          LET cfs == IF given = "built" THEN build_bond_cashflows(par, rate, years, EffectiveM(m))
                     ELSE IF given = "other" THEN <<Fx(60)>> ELSE <<>>
              n == internal_rate_return(cfs, price, rate, par, years, m)
          IN  /\ args' = [cash_flows |-> cfs, price |-> price, interest_rate |-> rate,
                          par_value |-> par, years |-> years, compounding_annually |-> m,
                          y_true |-> NoYield]
              /\ pc' = n.pc
              /\ loc' = n.loc
              /\ res' = n.res
    /\ fn' = "internal_rate_return"

\* the calls of test_bond.cpp:89-125: the schedule is built, priced at a chosen
\* yield y_true with price_from_yield, and that price is handed to the solver
CallInternalRateReturnOfPricedBond ==
    /\ pc = "idle"
    /\ \E rate \in {r \in IrrRates : r > 0}, par \in IrrPars, years \in 1 .. MaxYears, m \in 1 .. MaxM,
          y_true \in IrrTrueYields :
          LET cfs == build_bond_cashflows(par, rate, years, m)
              price == price_from_yield(cfs, y_true, m)
              n == internal_rate_return(cfs, price, rate, par, years, m)
          IN  /\ args' = [cash_flows |-> cfs, price |-> price, interest_rate |-> rate,
                          par_value |-> par, years |-> years, compounding_annually |-> m,
                          y_true |-> y_true]
              /\ pc' = n.pc
              /\ loc' = n.loc
              /\ res' = n.res
    /\ fn' = "internal_rate_return"

\* the locals l after one pass of the loop that walks the bracket away from the guess
WalkStep(l) ==
    LET grow == (MaxIter - l.count) % l.step = 0
        fexp == IF grow THEN l.fexp + 1 ELSE l.fexp
        step == IF grow /\ l.step > 1 THEN l.step \div 2 ELSE l.step
        x == IF l.dir = "up" THEN FxScaleUp(l.b, fexp) ELSE FxScaleDown(l.a, fexp)
        fx == Objective(l.cf, l.price, x)
    IN  IF l.dir = "up"
        THEN [l EXCEPT !.a = l.b, !.fa = l.fb, !.b = x, !.fb = fx,
                       !.fexp = fexp, !.step = step, !.count = Charge(@),
                       !.iters = @ + 1, !.evals = @ + 1]
        ELSE [l EXCEPT !.b = l.a, !.fb = l.fa, !.a = x, !.fa = fx,
                       !.fexp = fexp, !.step = step, !.count = Charge(@),
                       !.iters = @ + 1, !.evals = @ + 1]

\* one pass of the loop that walks the bracket away from the guess
BracketWalk ==
    /\ pc = "bracket"
    /\ Sgn(loc.fb) = Sgn(loc.fa)
    /\ loc.dir = "down" => Abs(loc.a) >= MinValue
    /\ loc.count # 0
    /\ loc' = WalkStep(loc)
    /\ UNCHANGED <<fn, args, pc, res>>

\* the budget is spent and the signs still agree: "Unable to bracket root"
BracketFail ==
    /\ pc = "bracket"
    /\ Sgn(loc.fb) = Sgn(loc.fa)
    /\ loc.dir = "down" => Abs(loc.a) >= MinValue
    /\ loc.count = 0
    /\ Goto(Raise(loc, "evaluation_error"))

\* the pair (0, a) handed to the second solve
EscapeStep(l) ==
    LET first == IF l.a > 0 THEN 0 ELSE l.a
        second == IF l.a > 0 THEN l.a ELSE 0
    IN  SecondSolve(l, first, second, MaxIter - l.count + 1)

\* walking down, the bracket has underflowed: the pair (0, a) is returned unsolved
BracketEscape ==
    /\ pc = "bracket"
    /\ Sgn(loc.fb) = Sgn(loc.fa)
    /\ loc.dir = "down"
    /\ Abs(loc.a) < MinValue
    /\ Goto(EscapeStep(loc))

\* the signs differ: the bracket is handed to toms748_solve
BracketFound ==
    /\ pc = "bracket"
    /\ Sgn(loc.fb) # Sgn(loc.fa)
    /\ Goto(FirstSolve(loc))

\* the loop of toms748_solve goes on from the locals l
TomsContinuing(l) == l.running /\ l.count # 0 /\ l.fa # 0 /\ ~Converged(l.a, l.b)

TomsContinues == TomsContinuing(loc)

\* the locals l after one iteration of toms748_solve in the solve p
BisectStep(p, l) ==
    LET c == l.a + (l.b - l.a) \div 2
        fc == Objective(l.cf, l.price, c)
        l2 == [l EXCEPT !.count = Charge(@), !.evals = @ + 1,
                        !.refines1 = IF p = "toms1" THEN @ + 1 ELSE @,
                        !.refines2 = IF p = "toms2" THEN @ + 1 ELSE @]
    IN  IF fc = 0 THEN [l2 EXCEPT !.a = c, !.fa = 0]
        ELSE IF Sgn(l.fa) * Sgn(fc) < 0 THEN [l2 EXCEPT !.b = c, !.fb = fc]
        ELSE [l2 EXCEPT !.a = c, !.fa = fc]

\* one iteration of toms748_solve
TomsStep ==
    /\ pc \in {"toms1", "toms2"}
    /\ TomsContinues
    /\ loc' = BisectStep(pc, loc)
    /\ UNCHANGED <<fn, args, pc, res>>

\* toms748_solve returns its bracket, collapsed onto an exact zero
TomsLow(l) == IF l.running /\ l.fb = 0 /\ l.fa # 0 THEN l.b ELSE l.a

TomsHigh(l) == IF l.running /\ l.fa = 0 THEN l.a ELSE l.b

TomsSpent(l) == IF l.running THEN l.budget - l.count ELSE 0

TomsFirst == TomsLow(loc)

TomsSecond == TomsHigh(loc)

TomsUsed == TomsSpent(loc)

\* bracket_and_solve_root returns; bond.cpp:125 solves again on its result
FirstSolveReturns ==
    /\ pc = "toms1"
    /\ ~TomsContinues
    /\ Goto(SecondSolve(loc, TomsFirst, TomsSecond, loc.it + TomsUsed))

\* bond.cpp:126-127
SecondSolveReturns ==
    /\ pc = "toms2"
    /\ ~TomsContinues
    /\ Goto(Finish(loc, TomsFirst, TomsSecond))

\* the step the root search takes from the locals l at the place p: the one
\* of BracketWalk, BracketFail, BracketEscape, BracketFound, TomsStep,
\* FirstSolveReturns and SecondSolveReturns that is enabled there
SolverStep(p, l) ==
    IF p = "bracket"
    THEN IF Sgn(l.fb) # Sgn(l.fa) THEN FirstSolve(l)
         ELSE IF l.dir = "down" /\ Abs(l.a) < MinValue THEN EscapeStep(l)
         ELSE IF l.count = 0 THEN Raise(l, "evaluation_error")
         ELSE [pc |-> p, loc |-> WalkStep(l), res |-> Running(l.trace)]
    ELSE IF TomsContinuing(l) THEN [pc |-> p, loc |-> BisectStep(p, l), res |-> Running(l.trace)]
    ELSE IF p = "toms1" THEN SecondSolve(l, TomsLow(l), TomsHigh(l), l.it + TomsSpent(l))
    ELSE Finish(l, TomsLow(l), TomsHigh(l))

\* a call of build_bond_cashflows, bond.h:63-76
CallBuildBondCashflows ==
    /\ pc = "idle"
    /\ \E par \in BuildPars, rate \in IrrRates, years \in YearsDom, m \in MDom :
          /\ args' = [par_value |-> par, coupon_rate |-> rate, years |-> years, m |-> m]
          /\ res' = Ok(build_bond_cashflows(par, rate, years, m), <<"build_bond_cashflows">>)
    /\ fn' = "build_bond_cashflows"
    /\ pc' = "done"
    /\ loc' = NoLoc

\* a call of zero_coupon_price, bond.h:90-105
CallZeroCouponPrice ==
    /\ pc = "idle"
    /\ \E par \in PricePars, y \in PriceYields, T \in Maturities, m \in MDom :
          /\ args' = [par_value |-> par, annual_yield |-> y, years_to_maturity |-> T, m |-> m]
          /\ res' = zero_coupon_price(par, y, T, m)
    /\ fn' = "zero_coupon_price"
    /\ pc' = "done"
    /\ loc' = NoLoc

\* a call of coupon_bond_price, bond.h:107-128
CallCouponBondPrice ==
    /\ pc = "idle"
    /\ \E par \in PricePars, c \in PriceCoupons, y \in PriceYields, T \in Maturities, m \in MDom :
          /\ args' = [par_value |-> par, coupon_rate |-> c, annual_yield |-> y,
                      years_to_maturity |-> T, m |-> m]
          /\ res' = coupon_bond_price(par, c, y, T, m)
    /\ fn' = "coupon_bond_price"
    /\ pc' = "done"
    /\ loc' = NoLoc

\* a call of accrued_interest
CallAccruedInterest ==
    /\ pc = "idle"
    /\ \E par \in AccrualPars, c \in AccrualCoupons, m \in MDom, alpha \in Alphas :
          /\ args' = [par_value |-> par, coupon_rate |-> c, m |-> m, accrued_fraction |-> alpha]
          /\ res' = accrued_interest(par, c, m, alpha)
    /\ fn' = "accrued_interest"
    /\ pc' = "done"
    /\ loc' = NoLoc

\* a call of dirty_coupon_price or of clean_coupon_price
CallCouponPrice ==
    /\ pc = "idle"
    /\ \E f \in {"dirty_coupon_price", "clean_coupon_price"}, par \in AccrualPars,
          c \in AccrualCoupons, y \in PriceYields, n \in PeriodsDom, m \in MDom, alpha \in Alphas :
          /\ fn' = f
          /\ args' = [par_value |-> par, coupon_rate |-> c, annual_yield |-> y,
                      periods_remaining |-> n, m |-> m, accrued_fraction |-> alpha]
          /\ res' = IF f = "dirty_coupon_price" THEN dirty_coupon_price(par, c, y, n, m, alpha)
                    ELSE clean_coupon_price(par, c, y, n, m, alpha)
    /\ pc' = "done"
    /\ loc' = NoLoc

\* a call of dirty_coupon_price_from_T or of clean_coupon_price_from_T; the
\* derived periods and accrued fraction are the locals of the call
CallCouponPriceFromT ==
    /\ pc = "idle"
    /\ \E f \in {"dirty_coupon_price_from_T", "clean_coupon_price_from_T"}, par \in AccrualPars,
          c \in AccrualCoupons, y \in PriceYields, T \in QuarterMaturities, m \in MDom :
          /\ fn' = f
          /\ args' = [par_value |-> par, coupon_rate |-> c, annual_yield |-> y,
                      years_to_maturity |-> T, m |-> m]
          /\ loc' = [periods_remaining |-> DerivedPeriods(T, m),
                     accrued_fraction |-> DerivedAlpha(T, m)]
          /\ res' = IF f = "dirty_coupon_price_from_T"
                    THEN dirty_coupon_price_from_T(par, c, y, T, m)
                    ELSE clean_coupon_price_from_T(par, c, y, T, m)
    /\ pc' = "done"

\* a call of black_scholes_call or black_scholes_put
CallBlackScholes ==
    /\ pc = "idle"
    /\ \E kind \in {"call", "put"}, S \in BsSpots, K \in BsStrikes, v \in BsSmall, r \in BsRates,
          t \in BsSmall :
          /\ fn' = IF kind = "call" THEN "black_scholes_call" ELSE "black_scholes_put"
          /\ args' = [stock_price |-> S, strike_price |-> K, volatility |-> v,
                      risk_free_rate |-> r, time |-> t]
          /\ res' = black_scholes(kind, S, K, v, r, t)
    /\ pc' = "done"
    /\ loc' = NoLoc

\* a call of binomial_eu_option or binomial_us_option with a payoff function
CallBinomial ==
    /\ pc = "idle"
    /\ \E style \in {"eu", "us"}, S \in BsSpots, K \in BsStrikes, u \in UpFactors,
          g \in GrowthFactors, steps \in StepsDom, payoff \in PayoffFuncs, oob \in OutOfBounds :
          /\ fn' = IF style = "eu" THEN "binomial_eu_option" ELSE "binomial_us_option"
          /\ args' = [stock_price |-> S, strike_price |-> K, up |-> u, growth |-> g,
                      steps |-> steps, payoff |-> payoff]
          /\ IF steps < 0
             THEN /\ res' = binomial_option(style, S, K, u, g, steps, payoff, oob)
                  /\ pc' = "done"
                  /\ loc' = NoLoc
             ELSE /\ res' = Running(<<"binomial_tree_setup", "allocate", "write", "payoff">>)
                  /\ pc' = "lattice"
                  /\ loc' = LatticeFrame(style, S, K, u, steps, payoff)

\* one pass of the inner loop, option.cpp:182 (European) or 213-219 (American):
\* options[j] is overwritten from options[j + 1] and options[j]; an index past
\* the end of the vector is undefined behaviour
NodeUpdate ==
    /\ pc = "lattice"
    /\ PassRuns(LatticeStyle, loc.i)
    /\ loc.j < InnerBound(LatticeStyle, loc.i)
    /\ IF loc.j + 1 < Len(loc.options)
       THEN /\ loc' = [loc EXCEPT
                         !.options = Store(loc.options, loc.j,
                                           NodeValue(LatticeStyle, loc.options, loc.i, loc.j,
                                                     args.stock_price, args.strike_price,
                                                     args.up, args.growth, args.payoff)),
                         !.j = loc.j + 1,
                         !.updates = loc.updates + 1,
                         !.touched = loc.touched \cup {loc.j, loc.j + 1}]
            /\ UNCHANGED <<pc, res>>
       ELSE /\ \E oob \in OutOfBounds :
                  res' = IF oob = "crash" THEN Throw("crash", Append(res.trace, "induction"))
                         ELSE Ok(<<"indeterminate">>, LatticeTrace)
            /\ pc' = "done"
            /\ loc' = [loc EXCEPT !.touched = loc.touched \cup {loc.j, loc.j + 1}]
    /\ UNCHANGED <<fn, args>>

\* the inner loop of pass i ends: option.cpp:180 (i--) or 211 (--i)
LayerDone ==
    /\ pc = "lattice"
    /\ PassRuns(LatticeStyle, loc.i)
    /\ loc.j >= InnerBound(LatticeStyle, loc.i)
    /\ loc' = [loc EXCEPT !.i = loc.i - 1, !.j = 0, !.layer = loc.options]
    /\ UNCHANGED <<fn, args, pc, res>>

\* the outer loop ends: return options[0], option.cpp:186 and 223
LatticeReturns ==
    /\ pc = "lattice"
    /\ ~PassRuns(LatticeStyle, loc.i)
    /\ res' = Ok(loc.options[1], LatticeTrace)
    /\ pc' = "done"
    /\ UNCHANGED <<fn, args, loc>>

\* a call of a binding wrapper with a payoff selector string
CallBinomialBinding ==
    /\ pc = "idle"
    /\ \E style \in {"eu", "us"}, S \in BsSpots, K \in BsStrikes, u \in UpFactors,
          g \in GrowthFactors, steps \in StepsDom, payoff_type \in PayoffTypes, oob \in OutOfBounds :
          /\ fn' = IF style = "eu" THEN "bind.binomial_eu_option" ELSE "bind.binomial_us_option"
          /\ args' = [stock_price |-> S, strike_price |-> K, up |-> u, growth |-> g,
                      steps |-> steps, payoff_type |-> payoff_type, oob |-> oob]
          /\ res' = binomial_option_binding(style, S, K, u, g, steps, payoff_type, oob)
    /\ pc' = "done"
    /\ loc' = NoLoc

\* a call of bs_call_delta or bs_put_delta
CallDelta ==
    /\ pc = "idle"
    /\ \E kind \in {"call", "put"}, S \in BsSpots, K \in GreekStrikes, v \in GreekVols,
          r \in GreekRates, q \in GreekYields, t \in GreekTimes :
          /\ fn' = IF kind = "call" THEN "bs_call_delta" ELSE "bs_put_delta"
          /\ args' = [stock_price |-> S, strike_price |-> K, volatility |-> v,
                      risk_free_rate |-> r, dividend_yield |-> q, time |-> t]
          /\ res' = IF kind = "call" THEN bs_call_delta(S, K, v, r, q, t)
                    ELSE bs_put_delta(S, K, v, r, q, t)
    /\ pc' = "done"
    /\ loc' = NoLoc

\* a call of internal_rate_return with a schedule of its own and a coupon rate
\* that only the initial guess uses
CallInternalRateReturnAtRate ==
    /\ pc = "idle"
    /\ \E price \in {Fx(60)}, rate \in IrrWildRates, par \in IrrPars, years \in {1}, m \in MDom :
          LET cfs == <<Fx(60)>>
              n == internal_rate_return(cfs, price, rate, par, years, m)
          IN  /\ args' = [cash_flows |-> cfs, price |-> price, interest_rate |-> rate,
                          par_value |-> par, years |-> years, compounding_annually |-> m,
                          y_true |-> NoYield]
              /\ pc' = n.pc
              /\ loc' = n.loc
              /\ res' = n.res
    /\ fn' = "internal_rate_return"

Next ==
    \/ CallPresentValue
    \/ CallPresentValueAtPar
    \/ CallInternalRateReturn
    \/ CallInternalRateReturnOfPricedBond
    \/ BracketWalk
    \/ BracketFail
    \/ BracketEscape
    \/ BracketFound
    \/ TomsStep
    \/ FirstSolveReturns
    \/ SecondSolveReturns
    \/ CallBuildBondCashflows
    \/ CallZeroCouponPrice
    \/ CallCouponBondPrice
    \/ CallAccruedInterest
    \/ CallCouponPrice
    \/ CallCouponPriceFromT
    \/ CallBlackScholes
    \/ CallBinomial
    \/ CallBinomialBinding
    \/ NodeUpdate
    \/ LayerDone
    \/ LatticeReturns
    \/ CallDelta
    \/ CallInternalRateReturnAtRate
    \/ Return

Spec == Init /\ [][Next]_vars

(***************************************************************************)
(* Properties of present_value.                                            *)
(***************************************************************************)
Called(f) == pc = "done" /\ fn = f

\* the per-period rate annual_yield/m of the call in args, for m > 0
ArgRate == <<args.annual_yield[1], args.annual_yield[2] * args.compounding_annually>>

ArgPeriods == args.years * args.compounding_annually

RPos(x) == x[1] > 0

RNonNeg(x) == x[1] >= 0

\* the inputs the documentation rejects: years < 0, m <= 0, annual_yield/m <= -1
C6_Rejected ==
    \/ args.years < 0
    \/ args.compounding_annually <= 0
    \/ args.annual_yield[1] <= -(args.compounding_annually * args.annual_yield[2])

\* C6: present_value throws invalid_argument, and returns no value, exactly when
\* years < 0 or m <= 0 or annual_yield/m <= -1; every other input returns a value;
\* and annual_yield is divided by m only after the check that m > 0 has passed.
C6_PresentValueRejects ==
    Called("present_value") =>
        /\ res.status \in {"ok", "invalid_argument"}
        /\ (res.status = "invalid_argument") <=> C6_Rejected
        /\ (res.status = "ok") <=> (res.value # NoValue)
        /\ \A i \in 1 .. Len(res.trace) :
              res.trace[i] = "divide_by_m" =>
                  /\ args.compounding_annually > 0
                  /\ \E j \in 1 .. i - 1 : res.trace[j] = "check_tenor_m"

\* a call rejected for its rate: the division by m has taken place, after the check of m
C6_Witness ==
    /\ Called("present_value")
    /\ res.status = "invalid_argument"
    /\ res.trace = <<"check_tenor_m", "divide_by_m", "check_rate">>

\* the closed form of the level schedule: c * A(n, r) + par * (1+r)^(-n)
C7_ClosedForm(c, par, r, n) ==
    LET growth == RPowNat(RAdd(ROne, r), n)
        A == IF r[1] = 0 THEN Rat(n) ELSE RDiv(RSub(ROne, RDiv(ROne, growth)), r)
    IN  RAdd(RMul(c, A), RDiv(par, growth))

\* C7: with the level flag, every accepted call with a first cash flow returns
\* cashflows[0] * A(n, r) + par * (1+r)^(-n), the case n = 0 included (where this is par).
C7_LevelClosedFormEverywhere ==
    (Called("present_value") /\ res.status = "ok" /\ args.same_cashflows /\ args.cash_flows # <<>>) =>
        res.value = C7_ClosedForm(args.cash_flows[1], args.par_value, ArgRate, ArgPeriods)

\* C8: par-bond identity.  With the level flag, m >= 1 and years >= 1 (the grid
\* m in {1,2,4,12}, years in {1,5,30} included), a level coupon of par * (y/m)
\* gives a present value of par.
C8_ParBondIdentity ==
    (/\ Called("present_value")
     /\ res.status = "ok"
     /\ args.same_cashflows
     /\ args.years >= 1
     /\ args.cash_flows # <<>>
     /\ args.cash_flows[1] = RMul(args.par_value, Norm(ArgRate[1], ArgRate[2]))) =>
        res.value = args.par_value

\* a par bond of the test's grid at a non-zero rate: quarterly, five years
C8_Witness ==
    /\ Called("present_value")
    /\ res.status = "ok"
    /\ args.same_cashflows
    /\ args.compounding_annually = 4
    /\ args.years = 5
    /\ args.annual_yield # RZero
    /\ args.par_value # RZero
    /\ args.cash_flows = <<RMul(args.par_value, Norm(ArgRate[1], ArgRate[2]))>>
    /\ res.value = args.par_value

\* the calls whose tenor is short enough to be priced exactly at every yield of Yields
C9_Compared == Called("present_value") /\ res.status = "ok" /\ ArgPeriods <= MaxYears * MaxM

\* the result of the call in args repeated at another annual yield
PvAt(y) ==
    present_value(args.cash_flows, y, args.par_value, args.years,
                  args.compounding_annually, args.same_cashflows)

C9_PositiveStream ==
    /\ ArgPeriods > 0
    /\ RNonNeg(args.par_value)
    /\ IF args.same_cashflows
       THEN /\ args.cash_flows # <<>>
            /\ RNonNeg(args.cash_flows[1])
            /\ RPos(args.cash_flows[1]) \/ RPos(args.par_value)
       ELSE /\ \A k \in 1 .. Len(args.cash_flows) : RNonNeg(args.cash_flows[k])
            /\ \/ \E k \in 1 .. Len(args.cash_flows) : RPos(args.cash_flows[k])
               \/ Len(args.cash_flows) < ArgPeriods /\ RPos(args.par_value)

RECURSIVE C10_Horner(_, _, _)
\* sum over k >= i of cf[k] / (1+r)^(k-i+1), by Horner's rule from the last element
C10_Horner(cf, r, i) ==
    IF i > Len(cf) THEN RZero
    ELSE RDiv(RAdd(cf[i], C10_Horner(cf, r, i + 1)), RAdd(ROne, r))

\* C10: without the level flag the result is the sum of cashflows[k] * (1+r)^(-(k+1))
\* over the whole schedule, plus par * (1+r)^(-n) if and only if the schedule has
\* fewer than n = years*m elements.
C10_GeneralSchedule ==
    (Called("present_value") /\ res.status = "ok" /\ ~args.same_cashflows) =>
        res.value =
            RAdd(C10_Horner(args.cash_flows, ArgRate, 1),
                 IF Len(args.cash_flows) < ArgPeriods
                 THEN RDiv(args.par_value, RPowNat(RAdd(ROne, ArgRate), ArgPeriods))
                 ELSE RZero)

\* a schedule of exactly n non-zero elements and a non-zero par: no redemption is added
C10_Witness ==
    /\ Called("present_value")
    /\ res.status = "ok"
    /\ ~args.same_cashflows
    /\ Len(args.cash_flows) = ArgPeriods
    /\ ArgPeriods > 0
    /\ args.par_value # RZero
    /\ res.value # RZero

(***************************************************************************)
(* Properties of internal_rate_return.                                     *)
(***************************************************************************)
InIrr == fn = "internal_rate_return"

\* valid bond terms of the round-trip law: c >= 0, years >= 1, m >= 1, price > 0,
\* par > 0, and the solver's schedule is build_bond_cashflows(par, c, years, m)
IrrValidBond ==
    /\ args.price > 0
    /\ args.par_value > 0
    /\ args.interest_rate >= 0
    /\ args.years >= 1
    /\ args.compounding_annually >= 1
    /\ loc # NoLoc
    /\ args.cash_flows = loc.cf
    /\ loc.cf = build_bond_cashflows(args.par_value, args.interest_rate, args.years,
                                     args.compounding_annually)

RECURSIVE SumAbs(_, _)
SumAbs(cf, k) == IF k = 0 THEN 0 ELSE SumAbs(cf, k - 1) + Abs(cf[k])

\* the rounding of the quotients price_from_yield adds up: each within
\* 2^(3-Digits) of its cash flow, and one unit
RoundingSlack(cf) == Len(cf) + (4 * SumAbs(cf, Len(cf))) \div One

\* the solver stopped on a bracket [a, b] across which PV - price changes sign
BracketHolds ==
    /\ loc.a <= loc.b
    /\ Objective(loc.cf, loc.price, loc.a) >= 0
    /\ Objective(loc.cf, loc.price, loc.b) <= 0

\* the price is reproduced to the solver's tolerance: it lies between the present
\* values at the two ends of the final bracket
ReproducesPrice(yield) ==
    LET err == price_from_yield(loc.cf, yield, args.compounding_annually) - args.price
    IN  /\ err <= Objective(loc.cf, loc.price, loc.a) + RoundingSlack(loc.cf)
        /\ err >= Objective(loc.cf, loc.price, loc.b) - RoundingSlack(loc.cf)

\* C1: round-trip law.  For every valid bond and price, at every compounding
\* frequency m, whenever the solver returns a yield y from a valid bracket,
\* price_from_yield(cfs, y, m) reproduces the price to the solver's tolerance.
C1_RoundTripEveryM ==
    (Called("internal_rate_return") /\ res.status = "ok" /\ IrrValidBond /\ BracketHolds) =>
        ReproducesPrice(res.value)

\* the law at m = 1, where annualizing (1+rp)^1 - 1 and dividing by m = 1 cancel
RoundTripAtAnnualCompounding ==
    (/\ Called("internal_rate_return")
     /\ res.status = "ok"
     /\ IrrValidBond
     /\ BracketHolds
     /\ args.compounding_annually = 1) =>
        ReproducesPrice(res.value)

\* the solver's relative tolerance 2^(1-bits) and two units of rounding
WithinSolverTolerance(y, y0) ==
    Abs(y - y0) * (2 ^ (TolBits - 1)) <= Abs(y0) + 2 * Epsilon * (2 ^ (TolBits - 1))

\* C2: the solver inverts price_from_yield.  When the price was computed as
\* price_from_yield(cfs, y_true, m) for a built schedule, a returned yield equals
\* y_true to tolerance (par, premium and discount bonds alike).
C2_InvertsPriceFromYield ==
    (Called("internal_rate_return") /\ res.status = "ok" /\ args.y_true # NoYield) =>
        WithinSolverTolerance(res.value, args.y_true)

\* the inversion at m = 1
InvertsAtAnnualCompounding ==
    (/\ Called("internal_rate_return")
     /\ res.status = "ok"
     /\ args.y_true # NoYield
     /\ args.compounding_annually = 1) =>
        WithinSolverTolerance(res.value, args.y_true)

\* C3: called with an empty sequence, internal_rate_return solves on
\* build_bond_cashflows(par, coupon_rate, years, m); when that is still empty
\* (years <= 0) it throws invalid_argument and returns no rate.
C3_EmptyScheduleSynthesized ==
    (InIrr /\ args.cash_flows = <<>>) =>
        /\ args.years <= 0 =>
              /\ pc = "done"
              /\ res.status = "invalid_argument"
              /\ res.value = NoValue
              /\ loc = NoLoc
        /\ (args.years > 0 /\ args.price > 0) =>
              /\ res.status # "invalid_argument"
              /\ Len(loc.cf) = args.years * EffectiveM(args.compounding_annually)
              /\ loc.cf = build_bond_cashflows(args.par_value, args.interest_rate, args.years,
                                               EffectiveM(args.compounding_annually))

\* a rate returned from a synthesized schedule
C3_Witness ==
    /\ Called("internal_rate_return")
    /\ args.cash_flows = <<>>
    /\ res.status = "ok"
    /\ Len(loc.cf) = 2
    /\ loc.refines1 > 0

\* C4: with price <= 0 the call throws invalid_argument, for explicit and
\* synthesized schedules alike, before any root search: the objective is never
\* evaluated and no result is produced.
C4_NonPositivePriceRejected ==
    (InIrr /\ args.price <= 0) =>
        /\ pc = "done"
        /\ res.status = "invalid_argument"
        /\ res.value = NoValue
        /\ loc = NoLoc

\* an explicit schedule rejected at the price check
C4_Witness ==
    /\ Called("internal_rate_return")
    /\ args.cash_flows # <<>>
    /\ args.price <= 0
    /\ res.status = "invalid_argument"
    /\ res.trace = EntryTrace

\* the budget left to the call in progress
Budget == IF loc = NoLoc THEN 0 ELSE loc.count

\* the bounds of a call: passes and evaluations against the budget MaxIter
C5_Bounds ==
    (InIrr /\ loc # NoLoc) =>
        /\ loc.count >= 0
        /\ loc.iters + loc.refines1 + loc.refines2 <= MaxIter
        /\ loc.evals <= 2 * MaxIter
        /\ pc = "done" => res.status \in {"ok", "evaluation_error", "domain_error"}

\* a step that stays in its loop spends budget
C5_Spends ==
    (pc \in {"bracket", "toms1", "toms2"} /\ pc' = pc) => Budget' < Budget

\* C5: every call terminates within the iteration budget.  The passes of the
\* bracketing loop and of the refinements together never exceed MaxIter = 128;
\* the remaining budget never goes below 0 and every pass of a loop lowers it,
\* so the call ends by returning a rate or raising an error, also when the
\* objective never changes sign.
C5_BoundedIterations == [](C5_Bounds) /\ [][C5_Spends]_vars

\* a zero initial guess: the objective never changes sign, the budget is spent and
\* the call ends with an error
C5_Witness ==
    /\ Called("internal_rate_return")
    /\ loc # NoLoc
    /\ loc.guess = 0
    /\ loc.iters = MaxIter - 1
    /\ res.status = "evaluation_error"

(***************************************************************************)
(* Properties of build_bond_cashflows.                                     *)
(***************************************************************************)
\* x is the exact quotient num / (den * One) up to the rounding of T: half a unit
\* for the result and half a unit of the rate scaled by the face value
NearQuotient(x, num, den, scale) ==
    Abs(x * den * One - num) * 2 <= den * One * (2 + Abs(scale) \div One)

\* C11: build_bond_cashflows never fails; for years > 0 and m > 0 it returns
\* exactly years*m elements, each par*c/m except the last, par*c/m + par; for
\* m <= 0 or years <= 0 it returns the empty sequence.
C11_BuildBondCashflows ==
    Called("build_bond_cashflows") =>
        LET n == args.years * args.m
            cf == res.value
        IN  /\ res.status = "ok"
            /\ (args.years <= 0 \/ args.m <= 0) => cf = <<>>
            /\ (args.years > 0 /\ args.m > 0) =>
                  /\ Len(cf) = n
                  /\ \A i \in 1 .. n - 1 :
                        NearQuotient(cf[i], args.par_value * args.coupon_rate, args.m, args.par_value)
                  /\ NearQuotient(cf[n] - args.par_value, args.par_value * args.coupon_rate, args.m,
                                  args.par_value)
                  /\ \A i \in 1 .. n - 1 : cf[i] = cf[1] /\ cf[n] = cf[i] + args.par_value

\* a schedule of several periods with a coupon and a face value
C11_Witness ==
    /\ Called("build_bond_cashflows")
    /\ args.years = 2
    /\ args.m = 2
    /\ args.par_value > 0
    /\ args.coupon_rate > 0
    /\ Len(res.value) = 4
    /\ res.value[4] > res.value[1]

\* a single period: the one element is coupon plus face value
C11_SinglePeriod ==
    (Called("build_bond_cashflows") /\ args.years = 1 /\ args.m = 1) =>
        /\ Len(res.value) = 1
        /\ NearQuotient(res.value[1] - args.par_value, args.par_value * args.coupon_rate, 1,
                        args.par_value)

(***************************************************************************)
(* Properties of zero_coupon_price and coupon_bond_price.                  *)
(***************************************************************************)
\* the real number of periods T*m of the call
ArgN == RMul(args.years_to_maturity, Rat(args.m))

\* 1 + y/m of the call
ArgBase == RAdd(ROne, RDiv(args.annual_yield, Rat(args.m)))

\* C12: zero_coupon_price returns par / (1 + y/m)^(T*m) with the real exponent
\* T*m, fractional T included and never truncated (stated where T*m is integral,
\* so that the power is rational); T = 1/2 and T = 0 give different prices when
\* y # 0.
C12_RealExponent ==
    (Called("zero_coupon_price") /\ res.status = "ok") =>
        /\ ArgN[2] = 1 => res.value = RDiv(args.par_value, RPow(ArgBase, ArgN[1]))
        /\ (args.years_to_maturity = <<1, 2>> /\ args.annual_yield # RZero) =>
              res.value # zero_coupon_price(args.par_value, args.annual_yield, RZero, args.m).value

\* what the code does: the price of the maturity cut to whole years
ZeroCouponOfWholeYears ==
    (Called("zero_coupon_price") /\ res.status = "ok") =>
        res.value = RDiv(args.par_value,
                         RPow(ArgBase, TruncToInt(args.years_to_maturity) * args.m))

RECURSIVE StreamValue(_, _, _, _)
\* the value, k periods before the last, of k coupons C and the face value:
\* V_0 = par, V_k = (V_(k-1) + C) / b
StreamValue(C, par, b, k) ==
    IF k <= 0 THEN par ELSE RDiv(RAdd(StreamValue(C, par, b, k - 1), C), b)

\* C13: coupon_bond_price discounts n = floor(T*m) full coupons and the stub;
\* when the stub fraction is 0 (T*m integral) the price is the n coupons plus par
\* at period n, so T = 1/2 with m = 2 pays one coupon; coupon rate equal to yield
\* with integral T*m gives par.
C13_FloorOfPeriods ==
    (Called("coupon_bond_price") /\ res.status = "ok" /\ ArgN[2] = 1) =>
        /\ res.value = StreamValue(RMul(args.par_value, RDiv(args.coupon_rate, Rat(args.m))),
                                   args.par_value, ArgBase, ArgN[1])
        /\ args.coupon_rate = args.annual_yield => res.value = args.par_value

\* what the code does: the bond of the maturity cut to whole years
CouponBondOfWholeYears ==
    (Called("coupon_bond_price") /\ res.status = "ok") =>
        res.value = StreamValue(RMul(args.par_value, RDiv(args.coupon_rate, Rat(args.m))),
                                args.par_value, ArgBase,
                                TruncToInt(args.years_to_maturity) * args.m)

\* a face value that is not positive, NaN included; a negative or NaN amount
NotPositive(x) == IsNaN(x) \/ x[1] <= 0

NegativeOrNaN(x) == IsNaN(x) \/ x[1] < 0

\* the call threw invalid_argument without reaching the pricing step
C14_Rejected ==
    /\ res.status = "invalid_argument"
    /\ res.value = NoValue
    /\ \A i \in 1 .. Len(res.trace) :
          res.trace[i] \notin {"truncate_years", "zero_coupon_price_cexpr", "coupon_bond_price_cexpr"}

\* C14: zero_coupon_price throws invalid_argument, before any price is computed,
\* exactly when par <= 0 or years_to_maturity < 0 or m <= 0 (NaN par or maturity
\* included); coupon_bond_price also requires coupon_rate >= 0; a negative yield
\* alone is accepted.
C14_PriceArgumentChecks ==
    /\ Called("zero_coupon_price") =>
          IF NotPositive(args.par_value) \/ NegativeOrNaN(args.years_to_maturity) \/ args.m <= 0
          THEN C14_Rejected
          ELSE res.status = "ok" /\ ~IsNaN(res.value)
    /\ Called("coupon_bond_price") =>
          IF \/ NotPositive(args.par_value)
             \/ NegativeOrNaN(args.coupon_rate)
             \/ NegativeOrNaN(args.years_to_maturity)
             \/ args.m <= 0
          THEN C14_Rejected
          ELSE res.status = "ok" /\ ~IsNaN(res.value)

\* a negative coupon rate rejected by coupon_bond_price, everything else valid
C14_Witness ==
    /\ Called("coupon_bond_price")
    /\ Greater(args.par_value, RZero)
    /\ Greater(RZero, args.coupon_rate)
    /\ GreaterEq(args.years_to_maturity, RZero)
    /\ args.m > 0
    /\ res.status = "invalid_argument"

\* a negative yield priced by zero_coupon_price
C14_NegativeYieldAccepted ==
    /\ Called("zero_coupon_price")
    /\ Greater(RZero, args.annual_yield)
    /\ res.status = "ok"

(***************************************************************************)
(* Properties of the accrual prices.                                       *)
(***************************************************************************)
\* valid bond terms: par > 0, c >= 0, n >= 0, m > 0, alpha in [0, 1)
AccrualValid ==
    /\ Greater(args.par_value, RZero)
    /\ GreaterEq(args.coupon_rate, RZero)
    /\ args.periods_remaining >= 0
    /\ args.m > 0
    /\ GreaterEq(args.accrued_fraction, RZero)
    /\ Greater(ROne, args.accrued_fraction)

\* the dirty price of the arguments of the call
ArgDirty ==
    dirty_coupon_price(args.par_value, args.coupon_rate, args.annual_yield,
                       args.periods_remaining, args.m, args.accrued_fraction)

\* C15: for valid (par, c, y, n, m, alpha), clean_coupon_price equals
\* dirty_coupon_price minus accrued_interest, and accrued_interest is
\* par*(c/m)*alpha.
C15_CleanIsDirtyMinusAccrued ==
    /\ (Called("clean_coupon_price") /\ AccrualValid) =>
          LET accrued == accrued_interest(args.par_value, args.coupon_rate, args.m,
                                          args.accrued_fraction)
          IN  /\ res.status = "ok"
              /\ ArgDirty.status = "ok"
              /\ accrued.status = "ok"
              /\ res.value[1] = RSub(ArgDirty.value[1], accrued.value)
              /\ res.value[2] = ArgDirty.value[2]
              /\ res.value[3] = ArgDirty.value[3]
              /\ res.value[4] = ArgDirty.value[4]
    /\ (Called("accrued_interest") /\ args.m > 0 /\ AlphaValid(args.accrued_fraction)) =>
          /\ res.status = "ok"
          /\ RMul(res.value, Rat(args.m)) =
                RMul(RMul(args.par_value, args.coupon_rate), args.accrued_fraction)

\* a clean price in the middle of a period, below the dirty price
C15_Witness ==
    /\ Called("clean_coupon_price")
    /\ AccrualValid
    /\ args.accrued_fraction = <<1, 2>>
    /\ Greater(args.coupon_rate, RZero)
    /\ args.periods_remaining = 2
    /\ res.status = "ok"
    /\ res.value # ArgDirty.value

\* C16 as claimed: for valid bond terms, alpha = 0 if and only if the clean price
\* equals the dirty price.
C16_CleanEqualsDirtyIffOnCouponDate ==
    (Called("clean_coupon_price") /\ AccrualValid) =>
        (args.accrued_fraction = RZero <=> res.value = ArgDirty.value)

\* C16: for valid bond terms, alpha = 0 implies that the clean price equals the
\* dirty price, and the clean price equals the dirty price exactly when
\* alpha = 0 or coupon_rate = 0.
C16_CleanEqualsDirtyIffNothingAccrued ==
    (Called("clean_coupon_price") /\ AccrualValid) =>
        /\ res.status = "ok"
        /\ args.accrued_fraction = RZero => res.value = ArgDirty.value
        /\ res.value = ArgDirty.value <=>
              (args.accrued_fraction = RZero \/ args.coupon_rate = RZero)

\* a zero-coupon bond in the middle of a period: clean equals dirty, alpha # 0
C16_Witness ==
    /\ Called("clean_coupon_price")
    /\ AccrualValid
    /\ args.coupon_rate = RZero
    /\ Greater(args.accrued_fraction, RZero)
    /\ args.periods_remaining > 0
    /\ res.status = "ok"
    /\ res.value = ArgDirty.value

\* the least integer n with N <= n, for N = T*m
C17_Periods == CHOOSE n \in -1 .. (Floor(ArgN) + 1) : RLe(ArgN, Rat(n)) /\ RLt(Rat(n - 1), ArgN)

C18_TooSmall(x) == ~IsNaN(x) /\ (x[1] <= 0 \/ x[1] * EpsInverse < x[2])

\* C18: black_scholes_call and black_scholes_put throw invalid_argument and
\* return no price whenever volatility or time is <= 0 or positive but below
\* 1e-9; the check comes before the division by volatility*sqrt(time); values
\* from 1e-9 up are priced.
C18_BlackScholesRejects ==
    (Called("black_scholes_call") \/ Called("black_scholes_put")) =>
        /\ (C18_TooSmall(args.volatility) \/ C18_TooSmall(args.time)) =>
              /\ res.status = "invalid_argument"
              /\ res.value = NoValue
              /\ res.trace = <<"check_volatility_time">>
        /\ (/\ ~IsNaN(args.volatility)
            /\ ~IsNaN(args.time)
            /\ ~C18_TooSmall(args.volatility)
            /\ ~C18_TooSmall(args.time)) =>
              res.status = "ok" /\ res.value # NaN
        /\ res.status = "ok" =>
              (args.volatility # RZero /\ args.time # RZero)

\* a negative volatility with a valid time, rejected by black_scholes_put
C18_Witness ==
    /\ Called("black_scholes_put")
    /\ args.volatility = Rat(-1)
    /\ args.time = Rat(1)
    /\ res.status = "invalid_argument"

\* a positive volatility below the threshold, rejected by black_scholes_call
C18_BelowEpsilonRejected ==
    /\ Called("black_scholes_call")
    /\ Greater(args.volatility, RZero)
    /\ Less(args.volatility, BsEpsilon)
    /\ args.time = Rat(1)
    /\ res.status = "invalid_argument"

CalledBinomial == Called("binomial_eu_option") \/ Called("binomial_us_option")

\* the steps of the trace that touch the lattice
TouchesLattice == \E i \in 1 .. Len(res.trace) : res.trace[i] \in {"allocate", "write", "read"}

\* C19: binomial_eu_option and binomial_us_option reject steps <= 0 with
\* invalid_argument: no lattice is built, no element is read or written, no
\* price is returned.
C19_NonPositiveStepsRejected ==
    (CalledBinomial /\ args.steps <= 0) =>
        /\ res.status = "invalid_argument"
        /\ res.value = NoValue
        /\ ~TouchesLattice

\* what the code does with steps = 0: it returns the payoff of the spot
ZeroStepsReturnIntrinsicValue ==
    (CalledBinomial /\ args.steps = 0) =>
        /\ res.status = "ok"
        /\ res.value = PayoffOf(args.payoff, args.stock_price, args.strike_price)

\* and no call ever throws invalid_argument
BinomialNeverThrowsInvalidArgument == CalledBinomial => res.status # "invalid_argument"

CalledBinding == Called("bind.binomial_eu_option") \/ Called("bind.binomial_us_option")

EngineInvoked == \E i \in 1 .. Len(res.trace) : res.trace[i] = "call_engine"

\* the engine's result for the arguments of the call, with the given payoff
C20_Engine(payoff) ==
    binomial_option(IF fn = "bind.binomial_eu_option" THEN "eu" ELSE "us", args.stock_price,
                    args.strike_price, args.up, args.growth, args.steps, payoff, args.oob)

\* C20: the bound binomial_eu_option and binomial_us_option accept exactly the
\* selectors "call" and "put", mapped to call_payoff and put_payoff; any other
\* string throws invalid_argument before the lattice engine is invoked.
C20_PayoffSelector ==
    CalledBinding =>
        /\ args.payoff_type \notin {"call", "put"} =>
              /\ res.status = "invalid_argument"
              /\ res.value = NoValue
              /\ ~EngineInvoked
        /\ args.payoff_type = "call" =>
              /\ EngineInvoked
              /\ res.status = C20_Engine("call_payoff").status
              /\ res.value = C20_Engine("call_payoff").value
        /\ args.payoff_type = "put" =>
              /\ EngineInvoked
              /\ res.status = C20_Engine("put_payoff").status
              /\ res.value = C20_Engine("put_payoff").value

\* a selector in another case, rejected although the other arguments are valid
C20_Witness ==
    /\ Called("bind.binomial_us_option")
    /\ args.payoff_type = "PUT"
    /\ args.steps = 2
    /\ res.status = "invalid_argument"

\* a put priced through the binding: in the money, so the payoffs differ
C20_PutPriced ==
    /\ Called("bind.binomial_eu_option")
    /\ args.payoff_type = "put"
    /\ args.steps = 2
    /\ res.status = "ok"
    /\ res.value # C20_Engine("call_payoff").value

(***************************************************************************)
(* Properties of the lattice induction.                                    *)
(***************************************************************************)
InLattice(f) == fn = f /\ pc \in {"lattice", "done"} /\ args.steps >= 1

RECURSIVE Choose(_, _)
Choose(n, k) == IF k = 0 \/ k = n THEN 1 ELSE Choose(n - 1, k - 1) + Choose(n - 1, k)

\* payoff(S0 * u^j * d^(steps - j)) of the call in args
TerminalPayoff(j) ==
    LET spot == RMul(args.stock_price,
                     RMul(RPow(args.up, j), RPow(RInv(args.up), args.steps - j)))
    IN  IF args.payoff = "call_payoff" THEN RMax(RSub(spot, args.strike_price), RZero)
        ELSE RMax(RSub(args.strike_price, spot), RZero)

\* p = (g - d)/(u - d) and disc = 1/g of the call in args
ArgP == RDiv(RSub(args.growth, RInv(args.up)), RSub(args.up, RInv(args.up)))

ArgDisc == RInv(args.growth)

RECURSIVE WeightedPayoffs(_)
\* sum over j = 0 .. k of C(steps, j) p^j (1 - p)^(steps - j) payoff_j
WeightedPayoffs(k) ==
    IF k < 0 THEN RZero
    ELSE RAdd(WeightedPayoffs(k - 1),
              RMul(Rat(Choose(args.steps, k)),
                   RMul(RMul(RPow(ArgP, k), RPow(RSub(ROne, ArgP), args.steps - k)),
                        TerminalPayoff(k))))

C21_Bounds ==
    InLattice("binomial_eu_option") =>
        /\ Len(loc.options) = args.steps + 1
        /\ loc.updates = 0 => loc.options = [k \in 1 .. args.steps + 1 |-> TerminalPayoff(k - 1)]
        /\ loc.i \in 0 .. args.steps
        /\ loc.j \in 0 .. loc.i
        /\ 2 * (loc.updates - loc.j) = args.steps * (args.steps + 1) - loc.i * (loc.i + 1)
        /\ pc = "done" =>
              /\ res.status = "ok"
              /\ 2 * loc.updates = args.steps * (args.steps + 1)
              /\ res.value = loc.options[1]
              /\ res.value = RMul(RPow(ArgDisc, args.steps), WeightedPayoffs(args.steps))

C21_Step ==
    (InLattice("binomial_eu_option") /\ pc = "lattice" /\ loc'.options # loc.options) =>
        /\ loc.i \in 1 .. args.steps
        /\ loc.j \in 0 .. loc.i - 1
        /\ loc'.updates = loc.updates + 1
        /\ loc'.options =
              [loc.options EXCEPT ![loc.j + 1] =
                  RMul(ArgDisc, RAdd(RMul(ArgP, loc.options[loc.j + 2]),
                                     RMul(RSub(ROne, ArgP), loc.options[loc.j + 1])))]

\* C21: binomial_eu_option with steps >= 1 starts from the steps + 1 terminal
\* payoffs, visits the nodes i = steps .. 1, j = 0 .. i - 1 in that order, each
\* visit setting value[j] = disc*(p*value[j+1] + (1-p)*value[j]), makes
\* steps*(steps+1)/2 such updates and returns value[0], which is disc^steps times
\* the binomial-weighted sum of the terminal payoffs
C21_EuropeanInduction == [](C21_Bounds) /\ [][C21_Step]_vars

C21_Witness ==
    /\ Called("binomial_eu_option")
    /\ args.steps = 3
    /\ loc.updates = 6
    /\ res.status = "ok"
    /\ RPos(res.value)

\* payoff(S0 * u^j * d^(i - j)) at the node (i, j) of the call in args
ExerciseValue(i, j) ==
    LET spot == RMul(args.stock_price, RMul(RPow(args.up, j), RPow(RInv(args.up), i - j)))
    IN  IF args.payoff = "call_payoff" THEN RMax(RSub(spot, args.strike_price), RZero)
        ELSE RMax(RSub(args.strike_price, spot), RZero)

\* disc*(p*v[j+1] + (1-p)*v[j]) on a vector v indexed from 0
ContinuationValue(v, j) ==
    RMul(ArgDisc, RAdd(RMul(ArgP, v[j + 2]), RMul(RSub(ROne, ArgP), v[j + 1])))

C22_Bounds ==
    InLattice("binomial_us_option") =>
        /\ loc.i \in -1 .. args.steps - 1
        /\ loc.j \in 0 .. loc.i + 1
        \* the nodes of the running pass that have been visited
        /\ \A k \in 0 .. loc.j - 1 :
              /\ RLe(ExerciseValue(loc.i, k), loc.options[k + 1])
              /\ loc.options[k + 1] = RMax(ContinuationValue(loc.layer, k), ExerciseValue(loc.i, k))
        \* the pass before it, once it is complete
        /\ (loc.j = 0 /\ loc.i < args.steps - 1) =>
              \A k \in 0 .. loc.i + 1 : RLe(ExerciseValue(loc.i + 1, k), loc.options[k + 1])
        /\ 2 * (loc.updates - loc.j) = args.steps * (args.steps + 1) - (loc.i + 1) * (loc.i + 2)
        /\ pc = "done" =>
              /\ res.status = "ok"
              /\ loc.i = -1
              /\ 2 * loc.updates = args.steps * (args.steps + 1)
              /\ res.value = loc.options[1]
              /\ RLe(ExerciseValue(0, 0), res.value)

C22_Step ==
    (InLattice("binomial_us_option") /\ pc = "lattice" /\ loc'.options # loc.options) =>
        /\ loc.i \in 0 .. args.steps - 1
        /\ loc.j \in 0 .. loc.i
        /\ loc'.options =
              [loc.options EXCEPT ![loc.j + 1] =
                  RMax(ContinuationValue(loc.options, loc.j), ExerciseValue(loc.i, loc.j))]

\* C22: binomial_us_option visits every node (i, j), 0 <= j <= i < steps, the
\* root included, and sets its value to max(continuation, exercise), exercise
\* being the payoff at S0*u^j*d^(i-j); once pass i is complete every value[j],
\* j <= i, is at least the exercise value of its node, and the result is at
\* least payoff(S0, K)
C22_EarlyExerciseEverywhere == [](C22_Bounds) /\ [][C22_Step]_vars

\* a node of an American put where exercising beats holding
C22_Witness ==
    /\ InLattice("binomial_us_option")
    /\ pc = "lattice"
    /\ args.steps >= 2
    /\ args.payoff = "put_payoff"
    /\ loc.j >= 1
    /\ loc.options[loc.j] = ExerciseValue(loc.i, loc.j - 1)
    /\ RLt(ContinuationValue(loc.layer, loc.j - 1), loc.options[loc.j])

RECURSIVE EuropeanValue(_, _)
\* the value of the node (i, j) with no early exercise, for the call in args
EuropeanValue(i, j) ==
    IF i >= args.steps THEN TerminalPayoff(j)
    ELSE RMul(ArgDisc, RAdd(RMul(ArgP, EuropeanValue(i + 1, j + 1)),
                            RMul(RSub(ROne, ArgP), EuropeanValue(i + 1, j))))

\* C23: with the put payoff binomial_us_option returns at least what
\* binomial_eu_option returns for the same arguments, and at every node of the
\* lattice the American value is at least the European value of that node
C23_AmericanDominatesEuropean ==
    InLattice("binomial_us_option") =>
        /\ \A k \in 0 .. loc.j - 1 : RLe(EuropeanValue(loc.i, k), loc.options[k + 1])
        /\ \A k \in loc.j .. loc.i + 1 : RLe(EuropeanValue(loc.i + 1, k), loc.options[k + 1])
        /\ (pc = "done" /\ args.payoff = "put_payoff") =>
              /\ res.status = "ok"
              /\ RLe(binomial_option("eu", args.stock_price, args.strike_price, args.up,
                                      args.growth, args.steps, args.payoff, "crash").value,
                      res.value)

\* the American call in args agrees with the European one: no visited node
\* prefers exercise, the values are the European ones, and so is the result
UsCallIsEuropean ==
    /\ \A k \in 0 .. loc.j - 1 :
          /\ RLe(ExerciseValue(loc.i, k), ContinuationValue(loc.layer, k))
          /\ loc.options[k + 1] = EuropeanValue(loc.i, k)
    /\ pc = "done" =>
          /\ res.status = "ok"
          /\ loc.i = -1
          /\ res.value = binomial_option("eu", args.stock_price, args.strike_price, args.up,
                                          args.growth, args.steps, args.payoff, "crash").value

RefD1 ==
    [log_of |-> RDiv(args.stock_price, args.strike_price),
     drift |-> RMul(RAdd(RSub(args.risk_free_rate, args.dividend_yield),
                         RDiv(RMul(args.volatility, args.volatility), Rat(2))),
                    args.time),
     over |-> <<args.volatility, args.time>>]

\* e^(-qT) * (Phi(d1) + shift)
RefDelta(shift) ==
    [scale_exp |-> RNeg(RMul(args.dividend_yield, args.time)),
     factor |-> [fun |-> "Phi", coef |-> ROne, arg |-> RefD1],
     shift |-> shift]

\* log(S/K) + drift = 0: S/K and the drift are rational, so only for S = K and no drift
D1IsZero(x) == x.log_of = ROne /\ x.drift = RZero

\* 0 <= factor <= 1: Phi lies in (0, 1), and exp(x^2/2) is 1 at x = 0 and above 1 elsewhere
FactorInUnitInterval(f) ==
    /\ RLe(RZero, f.coef)
    /\ RLe(f.coef, ROne)
    /\ f.fun = "exp_half_square" => D1IsZero(f.arg)

\* C25: bs_call_delta returns e^(-qT)*Phi(d1) and bs_put_delta returns
\* e^(-qT)*(Phi(d1) - 1), Phi being the normal distribution function, so that the
\* call delta lies in [0, e^(-qT)], the put delta in [-e^(-qT), 0], and the put
\* delta is the call delta less e^(-qT)
C25_DeltasUseDistributionFunction ==
    /\ Called("bs_call_delta") =>
          /\ res.status = "ok"
          /\ res.value = RefDelta(RZero)
          /\ FactorInUnitInterval(res.value.factor)
    /\ Called("bs_put_delta") =>
          /\ res.status = "ok"
          /\ res.value = RefDelta(Rat(-1))
          /\ FactorInUnitInterval(res.value.factor)
          /\ res.value = [bs_call_delta(args.stock_price, args.strike_price, args.volatility,
                                         args.risk_free_rate, args.dividend_yield,
                                         args.time).value EXCEPT !.shift = Rat(-1)]

RECURSIVE AmericanValue(_, _)
\* the value of the node (i, j) with early exercise, computed layer by layer
\* from fresh values, for the call in args
AmericanValue(i, j) ==
    IF i >= args.steps THEN TerminalPayoff(j)
    ELSE RMax(RMul(ArgDisc, RAdd(RMul(ArgP, AmericanValue(i + 1, j + 1)),
                                 RMul(RSub(ROne, ArgP), AmericanValue(i + 1, j)))),
              ExerciseValue(i, j))

\* C28: the induction on one array equals the induction layer by layer: in the
\* pass that computes a layer from the one above it, the entries already
\* overwritten hold the new layer's values, the others still hold the values of
\* the layer above, and the result is the value of the root, in
\* binomial_eu_option and in binomial_us_option
C28_InPlaceIsLayerwise ==
    /\ InLattice("binomial_eu_option") =>
          /\ \A k \in 0 .. loc.j - 1 : loc.options[k + 1] = EuropeanValue(loc.i - 1, k)
          /\ \A k \in loc.j .. loc.i : loc.options[k + 1] = EuropeanValue(loc.i, k)
          /\ \A k \in loc.j .. args.steps : loc.options[k + 1] = loc.layer[k + 1]
          /\ pc = "done" => res.value = EuropeanValue(0, 0)
    /\ InLattice("binomial_us_option") =>
          /\ \A k \in 0 .. loc.j - 1 : loc.options[k + 1] = AmericanValue(loc.i, k)
          /\ \A k \in loc.j .. loc.i + 1 : loc.options[k + 1] = AmericanValue(loc.i + 1, k)
          /\ \A k \in loc.j .. args.steps : loc.options[k + 1] = loc.layer[k + 1]
          /\ pc = "done" => res.value = AmericanValue(0, 0)

\* in the middle of a pass, an entry already overwritten with a new value
C28_Witness ==
    /\ pc = "lattice"
    /\ args.steps >= 2
    /\ loc.j >= 1
    /\ loc.j < InnerBound(LatticeStyle, loc.i)
    /\ loc.options[loc.j] # loc.layer[loc.j]
    /\ loc.options[loc.j + 1] = loc.layer[loc.j + 1]

C29_Bounds ==
    (fn \in {"binomial_eu_option", "binomial_us_option"} /\ pc \in {"lattice", "done"}
        /\ args.steps >= 1) =>
        /\ loc.allocated = args.steps + 1
        /\ Len(loc.options) = args.steps + 1
        /\ loc.filled = 0 .. args.steps
        /\ loc.payoff_calls = 1
        /\ loc.touched \subseteq 0 .. args.steps
        /\ pc = "lattice" => {loc.j, loc.j + 1} \subseteq 0 .. args.steps + 1
        /\ (pc = "lattice" /\ PassRuns(LatticeStyle, loc.i)
               /\ loc.j < InnerBound(LatticeStyle, loc.i)) => loc.j + 1 <= args.steps
        /\ pc = "done" => res.status = "ok" /\ res.value = loc.options[1]

C29_Step ==
    (fn \in {"binomial_eu_option", "binomial_us_option"} /\ pc = "lattice") =>
        /\ Len(loc'.options) = Len(loc.options)
        /\ loc'.options # loc.options =>
              /\ loc'.touched = loc.touched \cup {loc.j, loc.j + 1}
              /\ \A k \in 1 .. Len(loc.options) : k # loc.j + 1 => loc'.options[k] = loc.options[k]

\* C29: for steps >= 1 the vector of a lattice call has steps + 1 elements from
\* its allocation to the return, the setup writes the indices 0 .. steps and
\* applies the payoff once without changing the length, and every index j and
\* j + 1 used by the induction of either engine lies in 0 .. steps
C29_LatticeIndicesInBounds == [](C29_Bounds) /\ [][C29_Step]_vars

\* the last element of the vector has been read by the induction
C29_Witness ==
    /\ pc = "lattice"
    /\ args.steps >= 2
    /\ args.steps \in loc.touched
    /\ 0 \in loc.touched

(***************************************************************************)
(* Properties of the solver's initial guess and of its frequency.          *)
(***************************************************************************)
\* a call of internal_rate_return that has reached the root search
IrrSearching == fn = "internal_rate_return" /\ pc \in {"bracket", "toms1", "toms2", "done"} /\ loc # NoLoc

\* coupon_rate/m of the call in args, or 0.05/m if that is not finite
C27_Quotient ==
    LET m == IF args.compounding_annually > 0 THEN args.compounding_annually ELSE 1
        q == IF args.interest_rate = FxNaN THEN FxNaN ELSE FxDivInt(args.interest_rate, m)
    IN  IF Abs(q) >= FxInf THEN FxDivInt(RoundDiv(5 * One, 100), m) ELSE q

C27_InRange ==
    /\ loc.guess > -One
    /\ loc.guess >= -One + Epsilon
    /\ loc.guess <= Fx(10)
    /\ (pc = "bracket" /\ loc.iters = 0) =>
          (loc.evals = 1 /\ loc.a = loc.guess /\ loc.b = loc.guess /\ loc.fa # FxInf)

\* C27 as stated: the guess lies in (-1, 10] and is coupon_rate/m, or 0.05/m
\* when that is not finite, clamped into (-1 + eps, 10]
C27_GuessIsClampedQuotient ==
    IrrSearching =>
        /\ C27_InRange
        /\ loc.guess = Clamp(C27_Quotient, -One + 10 * Epsilon, Fx(10))

\* C27: the guess lies in (-1, 10]: it is coupon_rate/m, or 0.05/m when that is
\* not finite, then -0.5 if the value is at or below -0.9, then clamped into
\* (-1 + eps, 10]; the first evaluation of the objective is at the guess, never
\* at rp <= -1
C27_GuessInRange ==
    IrrSearching =>
        /\ C27_InRange
        /\ loc.guess = Clamp(IF C27_Quotient <= -((9 * One) \div 10) THEN -(One \div 2)
                              ELSE C27_Quotient,
                              -One + 10 * Epsilon, Fx(10))

\* a far-out coupon rate that the clamp cuts to 10
C27_Witness ==
    /\ IrrSearching
    /\ pc = "bracket"
    /\ loc.iters = 0
    /\ args.interest_rate = Fx(100)
    /\ loc.guess = Fx(10)

\* the call in args with compounding_annually = 1 in place of the value given,
\* up to its first evaluation of the objective
C30_WithOne ==
    internal_rate_return(args.cash_flows, args.price, args.interest_rate, args.par_value,
                         args.years, 1)

\* C30: with compounding_annually <= 0 internal_rate_return raises no
\* InvalidArgument on that account: it uses m = 1 for the synthesis of the
\* schedule, for the initial guess and for the annualization, and so does
\* exactly what the call with compounding_annually = 1 does
C30_NonPositiveFrequencyIsOne ==
    (fn = "internal_rate_return" /\ pc # "idle" /\ args.compounding_annually <= 0) =>
        \* the same checks fail, the same search is entered
        /\ internal_rate_return(args.cash_flows, args.price, args.interest_rate, args.par_value,
                                args.years, args.compounding_annually) = C30_WithOne
        /\ loc = NoLoc =>
              /\ pc = "done"
              /\ C30_WithOne.pc = "done"
              /\ res = C30_WithOne.res
              /\ (args.cash_flows # <<>> /\ args.price > 0) => res.status = "ok"
        /\ loc # NoLoc =>
              /\ C30_WithOne.pc = "bracket"
              /\ loc.m = 1
              /\ loc.cf = C30_WithOne.loc.cf
              /\ loc.cf = IF args.cash_flows = <<>>
                          THEN build_bond_cashflows(args.par_value, args.interest_rate, args.years, 1)
                          ELSE args.cash_flows
              /\ loc.guess = C30_WithOne.loc.guess
              /\ (pc = "bracket" /\ loc.iters = 0) =>
                    (loc = C30_WithOne.loc /\ res = C30_WithOne.res)
              /\ (pc = "done" /\ res.status = "ok") => res.value = loc.rp

\* a schedule synthesized and a yield found with compounding_annually <= 0
C30_Witness ==
    /\ Called("internal_rate_return")
    /\ args.compounding_annually <= 0
    /\ args.cash_flows = <<>>
    /\ args.years >= 1
    /\ res.status = "ok"
    /\ loc.m = 1

(***************************************************************************)
(* Concurrent calls.  Two threads call binomial_eu_option,                 *)
(* binomial_us_option and internal_rate_return and their steps interleave. *)
(* Here fn, args, pc and res hold one value per thread, and loc holds the  *)
(* memory: frame[t] the locals of the call of thread t, scratch the        *)
(* buffers of the vectors `options`, caller the sequences the callers own  *)
(* and pass by const reference.                                            *)
(***************************************************************************)
Threads == {1, 2}

Callers == {1, 2}

\* the callers' cash flows: none (a schedule is synthesized), and 5, 105
CallerSequences == [c \in Callers |-> IF c = 1 THEN <<>> ELSE <<Fx(5), Fx(105)>>]

\* one buffer that every call uses
ScratchOwner_Shared(t) == 1

\* the buffer behind the local vector `options` of the call of thread t,
\* option.cpp:178 and 209: every call constructs a vector of its own
ScratchOwner(t) == t

ThreadStyle(t) == IF fn[t] = "binomial_eu_option" THEN "eu" ELSE "us"

ConcInit ==
    /\ fn = [t \in Threads |-> "none"]
    /\ args = [t \in Threads |-> NoArgs]
    /\ pc = [t \in Threads |-> "idle"]
    /\ res = [t \in Threads |-> Throw("none", <<>>)]
    /\ loc = [frame |-> [t \in Threads |-> NoLoc],
              scratch |-> [t \in Threads |-> <<>>],
              caller |-> CallerSequences]

\* thread t calls binomial_eu_option or binomial_us_option: option.cpp:171-178, 204-209
ConcCallBinomial(t) ==
    /\ pc[t] = "idle"
    /\ \E style \in {"eu", "us"}, S \in BsSpots, K \in {Rat(110)}, u \in {<<3, 2>>},
          g \in {<<5, 4>>}, steps \in {1, 2}, payoff \in PayoffFuncs :
          /\ fn' = [fn EXCEPT ![t] = IF style = "eu" THEN "binomial_eu_option"
                                     ELSE "binomial_us_option"]
          /\ args' = [args EXCEPT ![t] = [stock_price |-> S, strike_price |-> K, up |-> u,
                                          growth |-> g, steps |-> steps, payoff |-> payoff]]
          /\ loc' = [loc EXCEPT !.frame[t] = [i |-> FirstPass(style, steps), j |-> 0],
                                !.scratch[ScratchOwner(t)] =
                                    binomial_tree_setup(S, K, u, steps, payoff)]
    /\ pc' = [pc EXCEPT ![t] = "lattice"]
    /\ res' = [res EXCEPT ![t] = Running(<<"binomial_tree_setup", "allocate", "write", "payoff">>)]

\* thread t makes one assignment of its induction: option.cpp:182, 213-219
ConcNodeUpdate(t) ==
    /\ pc[t] = "lattice"
    /\ PassRuns(ThreadStyle(t), loc.frame[t].i)
    /\ loc.frame[t].j < InnerBound(ThreadStyle(t), loc.frame[t].i)
    /\ LET v == loc.scratch[ScratchOwner(t)]
           f == loc.frame[t]
       IN  IF f.j + 1 < Len(v)
           THEN /\ loc' = [loc EXCEPT
                             !.scratch[ScratchOwner(t)] =
                                 Store(v, f.j,
                                       NodeValue(ThreadStyle(t), v, f.i, f.j,
                                                 args[t].stock_price, args[t].strike_price,
                                                 args[t].up, args[t].growth, args[t].payoff)),
                             !.frame[t].j = f.j + 1]
                /\ UNCHANGED <<pc, res>>
           ELSE /\ \E oob \in OutOfBounds :
                      res' = [res EXCEPT ![t] =
                                 IF oob = "crash" THEN Throw("crash", Append(res[t].trace, "induction"))
                                 ELSE Ok(<<"indeterminate">>, LatticeTrace)]
                /\ pc' = [pc EXCEPT ![t] = "done"]
                /\ UNCHANGED loc
    /\ UNCHANGED <<fn, args>>

\* thread t ends a pass: option.cpp:180, 211
ConcLayerDone(t) ==
    /\ pc[t] = "lattice"
    /\ PassRuns(ThreadStyle(t), loc.frame[t].i)
    /\ loc.frame[t].j >= InnerBound(ThreadStyle(t), loc.frame[t].i)
    /\ loc' = [loc EXCEPT !.frame[t] = [i |-> loc.frame[t].i - 1, j |-> 0]]
    /\ UNCHANGED <<fn, args, pc, res>>

\* thread t returns options[0]: option.cpp:186, 223
ConcLatticeReturns(t) ==
    /\ pc[t] = "lattice"
    /\ ~PassRuns(ThreadStyle(t), loc.frame[t].i)
    /\ LET v == loc.scratch[ScratchOwner(t)]
       IN  res' = [res EXCEPT ![t] = IF Len(v) >= 1 THEN Ok(v[1], LatticeTrace)
                                      ELSE Throw("crash", LatticeTrace)]
    /\ pc' = [pc EXCEPT ![t] = "done"]
    /\ UNCHANGED <<fn, args, loc>>

\* thread t calls internal_rate_return on a caller's sequence: bond.cpp:83-118,
\* the copy cf of line 85 and the first evaluation of the lambda included
ConcCallIrr(t) ==
    /\ pc[t] = "idle"
    /\ \E c \in Callers, price \in {Fx(100)}, rate \in {One \div 8}, par \in IrrPars,
          years \in {1}, m \in {0, 2} :
          LET n == internal_rate_return(loc.caller[c], price, rate, par, years, m)
          IN  /\ args' = [args EXCEPT ![t] = [cash_flows |-> c, price |-> price,
                                              interest_rate |-> rate, par_value |-> par,
                                              years |-> years, compounding_annually |-> m]]
              /\ pc' = [pc EXCEPT ![t] = n.pc]
              /\ res' = [res EXCEPT ![t] = n.res]
              /\ loc' = [loc EXCEPT !.frame[t] = n.loc]
    /\ fn' = [fn EXCEPT ![t] = "internal_rate_return"]

\* thread t takes one step of its root search: bond.cpp:121-127
ConcSolverStep(t) ==
    /\ pc[t] \in {"bracket", "toms1", "toms2"}
    /\ LET n == SolverStep(pc[t], loc.frame[t])
       IN  /\ pc' = [pc EXCEPT ![t] = n.pc]
           /\ res' = [res EXCEPT ![t] = n.res]
           /\ loc' = [loc EXCEPT !.frame[t] = n.loc]
    /\ UNCHANGED <<fn, args>>

\* the call of thread t returns: its locals, the vector included, are destroyed
ConcReturn(t) ==
    /\ pc[t] = "done"
    /\ fn' = [fn EXCEPT ![t] = "none"]
    /\ args' = [args EXCEPT ![t] = NoArgs]
    /\ pc' = [pc EXCEPT ![t] = "idle"]
    /\ res' = [res EXCEPT ![t] = Throw("none", <<>>)]
    /\ loc' = [loc EXCEPT !.frame[t] = NoLoc,
                          !.scratch[ScratchOwner(t)] =
                              IF fn[t] = "internal_rate_return" THEN @ ELSE <<>>]

ConcNext ==
    \/ \E t \in Threads : ConcCallBinomial(t)
    \/ \E t \in Threads : ConcNodeUpdate(t)
    \/ \E t \in Threads : ConcLayerDone(t)
    \/ \E t \in Threads : ConcLatticeReturns(t)
    \/ \E t \in Threads : ConcCallIrr(t)
    \/ \E t \in Threads : ConcSolverStep(t)
    \/ \E t \in Threads : ConcReturn(t)

ConcSpec == ConcInit /\ [][ConcNext]_vars

RECURSIVE SolverRun(_)
\* the root search run to its end from the state n, with nothing else running
SolverRun(n) == IF n.pc = "done" THEN n ELSE SolverRun(SolverStep(n.pc, n.loc))

\* what the call of thread t returns when it runs alone
AloneResult(t) ==
    IF fn[t] = "internal_rate_return"
    THEN SolverRun(internal_rate_return(CallerSequences[args[t].cash_flows], args[t].price,
                                        args[t].interest_rate, args[t].par_value,
                                        args[t].years, args[t].compounding_annually)).res
    ELSE binomial_option(ThreadStyle(t), args[t].stock_price, args[t].strike_price,
                         args[t].up, args[t].growth, args[t].steps, args[t].payoff, "crash")

ThreadState(t) == <<fn[t], args[t], pc[t], res[t], loc.frame[t], loc.scratch[ScratchOwner(t)]>>

C26_Results ==
    /\ loc.caller = CallerSequences
    /\ \A t \in Threads : pc[t] = "done" => res[t] = AloneResult(t)
    /\ \A t \in Threads : \A s \in Threads \ {t} :
          (pc[t] = "lattice" /\ pc[s] = "lattice") => ScratchOwner(s) # ScratchOwner(t)

C26_Frames ==
    \A t \in Threads :
        ThreadState(t)' # ThreadState(t) =>
            \A s \in Threads \ {t} : ThreadState(s)' = ThreadState(s)

\* C26: no state crosses call boundaries: the result of a call is the one the
\* call gives when it runs alone, whatever the other thread does meanwhile and
\* whatever was called before; the callers' sequences are never modified; every
\* lattice call works on a vector of its own; a step of one call changes
\* nothing that belongs to the other
C26_CallsAreIndependent == [](C26_Results) /\ [][C26_Frames]_vars

\* both threads are in the middle of a lattice call
C26_Witness ==
    /\ pc[1] = "lattice"
    /\ pc[2] = "lattice"
    /\ loc.frame[1].j >= 1
    /\ loc.frame[2].j >= 1
    /\ args[1] # args[2]

====
